---- MODULE Spec2Model ----
(***************************************************************************)
(* CasaBoxServer: the transactional data layer (createUser, createListing, *)
(* createBooking, getOrCreateAddress), the reads and single-statement      *)
(* updates next to it (getListingById, authenticateUser, ...), all running *)
(* on ONE shared mysql2 connection `conn`.                                 *)
(*                                                                         *)
(* The connection executes the commands handed to it one at a time, in the *)
(* order they were handed over (`queue`).  Executing a command runs its    *)
(* callback, and the callback hands over the call's next command.  The     *)
(* store keeps the connection's current view (`db`) and what is durable    *)
(* (`committed`); START TRANSACTION commits whatever transaction is open,  *)
(* a statement outside a transaction is committed at once (autocommit).    *)
(***************************************************************************)
EXTENDS Integers, Sequences, FiniteSets, TLC

\* ---------------------------------------------------------------- bounds
MaxCalls == 2
MaxFaults == 1

Calls == 1..MaxCalls

\* ------------------------------------------------------- optional values
\* A JavaScript value that may be undefined / an SQL column that may be NULL
\* is a sequence of length 0 (absent) or 1 (present).
None == <<>>
Some(x) == <<x>>
IsSome(o) == Len(o) = 1
Get(o) == o[1]

\* ------------------------------------------------------- string helpers
\* Strings that the code edits are sequences of one-character strings.
IsSpace(c) == c = " "

RECURSIVE TrimLeft(_)
TrimLeft(s) == IF s # <<>> /\ IsSpace(Head(s)) THEN TrimLeft(Tail(s)) ELSE s

RECURSIVE TrimRight(_)
TrimRight(s) ==
  IF s # <<>> /\ IsSpace(s[Len(s)]) THEN TrimRight(SubSeq(s, 1, Len(s) - 1)) ELSE s

Trim(s) == TrimRight(TrimLeft(s))

\* `${number || ""} ${streetName}`.trim()
FullStreetName(number, streetName) == Trim(number \o <<" ">> \o streetName)

\* The (StreetName, City, PostalCode) triple getOrCreateAddress looks up and inserts.
AddressKey(a) ==
  [StreetName |-> FullStreetName(a.number, a.streetName),
   City |-> a.city, PostalCode |-> a.postalCode]

\* ------------------------------------------------------------ validation
\* validator.isEmail, on the e-mail strings the model uses.
validateEmail(email) == email \in {"a@x.com", "b@x.com"}

\* /^(?=.*[a-z])(?=.*[A-Z])(?=.*\d)[a-zA-Z\d@$!%*?&]{8,}$/ on the passwords used.
validatePassword(password) == password \in {"Str0ngPass", "N3wPassw0rd"}

\* bcrypt.hash(password, 12): the hash remembers the password and the cost.
BcryptCost == 12
BcryptHash(password) == [cost |-> BcryptCost, of |-> password]

\* formatMySqlDateTime: null for a missing date, the formatted date otherwise;
\* new Date(x).toISOString() throws a RangeError on an invalid date.
DateThrows(date) == date = "garbage"
formatMySqlDateTime(date) == IF date = "" THEN "NULL" ELSE date \o " 00:00:00"

\* ---------------------------------------------------------------- inputs
Numbers == {<<>>, <<"1">>}
StreetNames == {<<"M">>, <<"1", " ", "M">>}
\* The house number is given in `number`, inside `streetName`, or not at all.
AddressInputs ==
  {a \in [number : Numbers, streetName : StreetNames,
          city : {<<"K", "o", "p", "e", "r">>}, postalCode : {"6000"}] :
     a.number = <<>> \/ a.streetName = <<"M">>}

Usernames == {"alice", "bob"}
Emails == {"a@x.com", "b@x.com"}

NoAddress == [number |-> <<>>, streetName |-> <<>>, city |-> <<>>, postalCode |-> ""]

\* One request record for all operations; an operation reads its own fields.
NoReq ==
  [op |-> "none",
   username |-> "", password |-> "", email |-> "", address |-> NoAddress,
   storageType |-> "", capacity |-> None, providerId |-> 0, images |-> None,
   listingId |-> 0, seekerId |-> 0, startDate |-> "", items |-> None,
   requestedSqm |-> None, status |-> "",
   identifier |-> "", userId |-> 0, isVerified |-> 0, filePath |-> <<>>,
   bookingId |-> 0, searchTerm |-> <<>>,
   currentPassword |-> "", newPassword |-> "",
   firstName |-> "", lastName |-> "", phoneNumber |-> "",
   files |-> <<>>, primaryImageName |-> "", role |-> "",
   session |-> None, route |-> "", bodyId |-> 0]

BaseUser ==
  [NoReq EXCEPT !.op = "createUser", !.username = "alice", !.password = "Str0ngPass",
                !.email = "a@x.com",
                !.address = [number |-> <<"1">>, streetName |-> <<"M">>,
                             city |-> <<"K", "o", "p", "e", "r">>, postalCode |-> "6000"]]

\* Well-formed registrations, and the base registration with one field spoilt
\* or with two.
UserInputs ==
  {[BaseUser EXCEPT !.username = u, !.email = e, !.address = a] :
      u \in Usernames, e \in Emails, a \in AddressInputs}
  \cup {[BaseUser EXCEPT !.username = ""],
        [BaseUser EXCEPT !.address.city = <<>>],
        [BaseUser EXCEPT !.email = "bad@"],
        [BaseUser EXCEPT !.password = "weak"],
        [BaseUser EXCEPT !.username = "", !.email = "bad@"],
        [BaseUser EXCEPT !.email = "bad@", !.password = "weak"],
        [BaseUser EXCEPT !.role = "Provider", !.isVerified = 1]}

\* A file path is a sequence of characters; the upload route keeps the
\* extension of the client's file name, so a path may hold any character.
Image(path, isPrimary) == [path |-> path, isPrimary |-> isPrimary]
ImageInputs ==
  {None, Some(<<>>),
   Some(<<Image(<<"q">>, FALSE), Image(<<"p">>, TRUE)>>),
   Some(<<Image(<<"p", ",", "g">>, TRUE)>>)}

BaseListing ==
  [NoReq EXCEPT !.op = "createListing", !.storageType = "ItemSlot",
                !.capacity = Some(10), !.providerId = 1,
                !.images = Some(<<Image(<<"q">>, FALSE), Image(<<"p">>, TRUE)>>),
                !.address = [number |-> <<"1">>, streetName |-> <<"M">>,
                             city |-> <<"K", "o", "p", "e", "r">>, postalCode |-> "6000"]]

\* Both storage types with every image list, every way of giving the address,
\* and the base listing with its storage type or its capacity spoilt.
ListingInputs ==
  {[BaseListing EXCEPT !.storageType = t, !.images = i] :
      t \in {"ItemSlot", "SquareMeter"}, i \in ImageInputs}
  \cup {[BaseListing EXCEPT !.address = a] : a \in AddressInputs}
  \cup {[BaseListing EXCEPT !.storageType = "Garage"],
        [BaseListing EXCEPT !.capacity = None]}

Item(categoryId, quantity) == [categoryId |-> categoryId, quantity |-> quantity]
ItemInputs ==
  {None, Some(<<>>), Some(<<Item(1, 2)>>), Some(<<Item(1, 2), Item(2, 1)>>)}

BaseBooking ==
  [NoReq EXCEPT !.op = "createBooking", !.listingId = 1, !.seekerId = 1,
                !.startDate = "2025-01-01", !.storageType = "ItemSlot",
                !.items = Some(<<Item(1, 2)>>)]

BookingInputs ==
  {[BaseBooking EXCEPT !.storageType = t, !.items = i, !.requestedSqm = q] :
      t \in {"ItemSlot", "SquareMeter", ""}, i \in ItemInputs, q \in {None, Some(25)}}
  \cup {[BaseBooking EXCEPT !.startDate = "garbage"],
        [BaseBooking EXCEPT !.status = "Accepted"]}

\* Requests to POST /listings/bookings/:bookingId/update: the status of the body
\* by a logged-in user, and one request without a session.
StatusInputs ==
  {[NoReq EXCEPT !.op = "updateBookingStatus", !.bookingId = b, !.status = t,
                 !.userId = 1, !.session = Some(1), !.route = "bookingUpdate"] :
      b \in {1, 2}, t \in {"Pending", "Accepted", "Rejected", "Cancelled", "Archived"}}
  \cup {[NoReq EXCEPT !.op = "updateBookingStatus", !.bookingId = 1,
                      !.status = "Accepted", !.route = "bookingUpdate"]}

\* Logins: by user name or by e-mail, of an account that exists (in the seeded
\* store) or not, with the right or a wrong password; a missing identifier, a
\* missing password, and an identifier that only looks like an e-mail.
AuthInputs ==
  {[NoReq EXCEPT !.op = "authenticateUser", !.identifier = i, !.password = w] :
      i \in Usernames \cup Emails, w \in {"Str0ngPass", "wrong"}}
  \cup {[NoReq EXCEPT !.op = "authenticateUser", !.password = "Str0ngPass"],
        [NoReq EXCEPT !.op = "authenticateUser", !.identifier = "alice"],
        [NoReq EXCEPT !.op = "authenticateUser", !.identifier = "bad@",
                      !.password = "Str0ngPass"],
        [NoReq EXCEPT !.op = "authenticateUser", !.identifier = "alice",
                      !.password = "N3wPassw0rd"]}

UserIds == {1, 2}

VerificationInputs ==
  {[NoReq EXCEPT !.op = "updateVerificationStatus", !.userId = u, !.isVerified = v] :
      u \in UserIds, v \in {0, 1}}

PictureInputs ==
  {[NoReq EXCEPT !.op = "updateProfilePicture", !.userId = u, !.filePath = <<"p">>] :
      u \in UserIds}

\* GET /listings/:id for the ids the calls of a run can have created.
ListingIdInputs ==
  {[NoReq EXCEPT !.op = "getListingById", !.listingId = i] : i \in 1..MaxCalls}

\* updatePassword(userId, currentPassword, newPassword): of a user that exists
\* (in the seeded store) or not, with the right or a wrong current password, to
\* a strong or a weak new password; and a call without the current password.
PasswordInputs ==
  {[NoReq EXCEPT !.op = "updatePassword", !.userId = u, !.currentPassword = c,
                 !.newPassword = n] :
      u \in UserIds, c \in {"Str0ngPass", "wrong"}, n \in {"N3wPassw0rd", "weak"}}
  \cup {[NoReq EXCEPT !.op = "updatePassword", !.userId = 1,
                      !.newPassword = "N3wPassw0rd"]}

\* The body of POST /auth/update-details: the new details and the password
\* that confirms them, right, wrong or left out.
DetailsBodies ==
  {[NoReq EXCEPT !.op = "updateUserDetails", !.currentPassword = c, !.email = e,
                 !.firstName = "Al", !.lastName = "Ice", !.phoneNumber = "040"] :
      c \in {"Str0ngPass", "wrong"}, e \in Emails}
  \cup {[NoReq EXCEPT !.op = "updateUserDetails", !.email = "b@x.com"]}

\* updateUserDetails(userId, userDetails)
DetailsInputs == {[b EXCEPT !.userId = u] : b \in DetailsBodies, u \in UserIds}

\* req.session.userId: no session, or the session of user 1.
Sessions == {None, Some(1)}

\* The body and files of POST /listings/create: a providerId the body may
\* carry, and the uploaded images (already as {path, isPrimary}) or none.
File(path, originalname) == [path |-> path, originalname |-> originalname]
CreateBodies ==
  {[BaseListing EXCEPT !.providerId = 0, !.images = None,
                       !.files = <<File(<<"q">>, "a.png"), File(<<"p">>, "b.png")>>,
                       !.primaryImageName = n] : n \in {"b.png", ""}}
  \cup {[BaseListing EXCEPT !.providerId = 2, !.images = None,
                            !.files = <<File(<<"q">>, "a.png"), File(<<"p">>, "a.png")>>,
                            !.primaryImageName = "a.png"],
        [BaseListing EXCEPT !.images = None]}

\* The body of POST /listings/book, with a seekerId it may carry.
BookBodies ==
  {[BaseBooking EXCEPT !.seekerId = 0, !.items = Some(<<Item(1, 12)>>)],
   [BaseBooking EXCEPT !.seekerId = 2, !.storageType = "SquareMeter",
                       !.requestedSqm = Some(25)]}

\* POST /auth/update-picture with or without a file.
PictureBodies ==
  {[NoReq EXCEPT !.op = "updateProfilePicture", !.filePath = f] :
      f \in {<<>>, <<"p">>}}

\* What a visitor types into the search box of GET /listings/search.
SearchTerms == {<<"K">>, <<"o", "p">>, <<"M">>, <<"Z">>, <<"_">>, <<"%">>}

SearchInputs ==
  {[NoReq EXCEPT !.op = "searchListings", !.searchTerm = t] : t \in SearchTerms}

\* ----------------------------------------------------------------- state
VARIABLES
  up,         \* the server process is running
  session,    \* req.session.userId of the one browser that sends the requests
  db,         \* the store as the connection sees it (with uncommitted rows)
  committed,  \* the durable store
  inTxn,      \* the connection is inside a transaction
  nextId,     \* AUTO_INCREMENT counter of each table
  queue,      \* calls whose command is waiting on the connection, in order
  faults,     \* storage commands that have failed so far
  pc,         \* call -> the command it waits for, or idle/hashing/resolved/threw
  req,        \* call -> its argument
  result,     \* call -> what its promise resolved with
  local,      \* call -> addressId, the new row's id, the pending failure message
  began,      \* call -> its beginTransaction succeeded
  ended,      \* call -> number of commits/rollbacks of its that ended a transaction
  wrote,      \* call -> the rows it inserted, as <<table, id>>
  fault,      \* call -> the command of its that failed, "" if none
  dupAtCall   \* call -> <<username taken, e-mail taken>> when createUser was called

vars ==
  <<up, session, db, committed, inTxn, nextId, queue, faults, pc, req, result,
    local, began, ended, wrote, fault, dupAtCall>>

Tables == {"Address", "User", "Listing", "Attachment", "Booking", "BookingItem"}

EmptyStore == [t \in Tables |-> {}]

\* A store left by an earlier run: one user, living at "1 M", who offers one
\* ItemSlot listing with one picture and has one pending booking of it.
SeedStore ==
  [EmptyStore EXCEPT
     !.Address = {[AddressID |-> 1, StreetName |-> <<"1", " ", "M">>,
                   City |-> <<"K", "o", "p", "e", "r">>, PostalCode |-> "6000"]},
     !.User = {[UserID |-> 1, Username |-> "alice", Email |-> "a@x.com",
                PasswordHash |-> BcryptHash("Str0ngPass"), Role |-> "Seeker",
                IsVerified |-> 0, AddressLine1 |-> 1, LastLoginDate |-> None,
                ProfilePictureURL |-> None, FirstName |-> None,
                LastName |-> None, PhoneNumber |-> None]},
     !.Listing = {[ListingID |-> 1, ProviderID |-> 1, StorageType |-> "ItemSlot",
                   TotalCapacity_Slots |-> Some(10), CapacitySQMeter |-> None,
                   AddressID |-> 1, CreationDate |-> 1, Status |-> "Active"]},
     !.Attachment = {[AttachmentID |-> 1, ListingID |-> 1, FileURL |-> <<"p">>,
                      IsPrimary |-> 1]},
     !.Booking = {[BookingID |-> 1, ListingID |-> 1, SeekerID |-> 1,
                   StartDate |-> "2025-01-01 00:00:00", BookingStatus |-> "Pending",
                   RequestedCapacity_SQMeters |-> None]},
     !.BookingItem = {[BookingItemID |-> 1, BookingID |-> 1, CategoryID |-> 1,
                       Quantity |-> 2]}]

NextIdOf(store) == [t \in Tables |-> Cardinality(store[t]) + 1]

NoResult == [success |-> FALSE, message |-> "", id |-> 0, data |-> None]
NoLocal == [addressId |-> 0, newId |-> 0, message |-> "", user |-> None]

Init ==
  /\ up = TRUE
  /\ session = None
  /\ db \in {EmptyStore, SeedStore}
  /\ committed = db
  /\ inTxn = FALSE
  /\ nextId = NextIdOf(db)
  /\ queue = <<>>
  /\ faults = 0
  /\ pc = [p \in Calls |-> "idle"]
  /\ req = [p \in Calls |-> NoReq]
  /\ result = [p \in Calls |-> NoResult]
  /\ local = [p \in Calls |-> NoLocal]
  /\ began = [p \in Calls |-> FALSE]
  /\ ended = [p \in Calls |-> 0]
  /\ wrote = [p \in Calls |-> {}]
  /\ fault = [p \in Calls |-> ""]
  /\ dupAtCall = [p \in Calls |-> <<FALSE, FALSE>>]

\* ------------------------------------------------- what a callback does next
\* A callback ends by handing the connection the call's next command (send),
\* by waiting for bcrypt (await), by resolving the promise (resolve), by
\* rejecting it (reject), or by throwing outside every try block (throw): an
\* uncaught exception, which ends the process.
Send(cmd) == [k |-> "send", pc |-> cmd, message |-> "", res |-> NoResult]
RollbackWith(msg) == [k |-> "send", pc |-> "rollback", message |-> msg, res |-> NoResult]
Await(what) == [k |-> "await", pc |-> what, message |-> "", res |-> NoResult]
Throw == [k |-> "throw", pc |-> "threw", message |-> "", res |-> NoResult]
Reject == [k |-> "reject", pc |-> "rejected", message |-> "", res |-> NoResult]
Resolve(success, msg, id) ==
  [k |-> "resolve", pc |-> "resolved", message |-> "",
   res |-> [success |-> success, message |-> msg, id |-> id, data |-> None]]
\* resolve(value) / resolve({success, message, data}): the value is in `data`.
ResolveData(success, msg, data) ==
  [k |-> "resolve", pc |-> "resolved", message |-> "",
   res |-> [success |-> success, message |-> msg, id |-> 0, data |-> data]]

\* The /login handler on a successful result: req.session.userId =
\* result.data.UserID; the /logout handler: req.session.destroy.
LoggedIn(c) == [c EXCEPT !.k = "login"]
LoggedOut ==
  [k |-> "logout", pc |-> "resolved", message |-> "",
   res |-> [success |-> TRUE, message |-> "Logout successful.", id |-> 0,
            data |-> None]]

\* Variant: a logout leaves the session as it is.
SessionAfterKeepsLogin(c, s) ==
  IF c.k = "login" THEN Some(Get(c.res.data).UserID) ELSE s

\* The session once the callback has ended.
SessionAfter(c, s) ==
  IF c.k = "login" THEN Some(Get(c.res.data).UserID)
  ELSE IF c.k = "logout" THEN None
  ELSE s

\* `rest` is the connection's queue without the command that just ran.
Continue(p, rest, c, loc) ==
  /\ session' = SessionAfter(c, session)
  /\ queue' = IF c.k = "send" THEN Append(rest, p)
              ELSE IF c.k = "throw" THEN <<>> ELSE rest
  /\ pc' = [pc EXCEPT ![p] = c.pc]
  /\ result' = [result EXCEPT ![p] = c.res]
  /\ local' = [local EXCEPT ![p] = [loc EXCEPT !.message = c.message]]
  /\ up' = (c.k # "throw")

\* The connection runs the command call p waits for.
Runs(p, cmd) == up /\ queue # <<>> /\ Head(queue) = p /\ pc[p] = cmd

\* A storage command may fail (lost packet, lock timeout, constraint, ...).
MayFail(ok) == ok \/ faults < MaxFaults
Outcome(p, cmd, ok) ==
  /\ faults' = IF ok THEN faults ELSE faults + 1
  /\ fault' = IF ok THEN fault ELSE [fault EXCEPT ![p] = cmd]

\* An INSERT/UPDATE: outside a transaction the statement is committed at once.
Write(table, rows) ==
  /\ db' = [db EXCEPT ![table] = rows]
  /\ committed' = IF inTxn THEN committed ELSE [committed EXCEPT ![table] = rows]

\* ------------------------------------------------------------- messages
MsgTransaction(op) ==
  IF op = "createUser" THEN "Database transaction error." ELSE "DB transaction error."
MsgInternal(op) ==
  CASE op = "createUser" -> "Internal error during user creation."
    [] op = "createListing" -> "Internal error during listing creation."
    [] OTHER -> "Internal error during booking creation."
MsgCommit(op) ==
  IF op = "createUser" THEN "Database commit error." ELSE "DB commit error."
MsgSuccess(op) ==
  CASE op = "createUser" -> "User created successfully!"
    [] op = "createListing" -> "Listing created successfully!"
    [] OTHER -> "Booking created successfully!"

\* ------------------------------------------------------------ operations
Quiet == \A q \in Calls : pc[q] \in {"idle", "resolved", "rejected"}

\* A request arrives: the operation runs up to its first command, c.
Start(p, r, c) ==
  /\ up
  /\ pc[p] = "idle"
  /\ \A q \in Calls : q < p => pc[q] # "idle"
  /\ req' = [req EXCEPT ![p] = r]
  /\ dupAtCall' = [dupAtCall EXCEPT ![p] =
        <<\E u \in db.User : u.Username = r.username,
          \E u \in db.User : u.Email = r.email>>]
  /\ Continue(p, queue, c, local[p])
  /\ UNCHANGED <<db, committed, inTxn, nextId, faults, began, ended, wrote, fault>>

\* The transactional operations call conn.beginTransaction(callback).
Invoke(p, r) == Start(p, r, Send("begin"))

createUser(p, free) == free /\ \E r \in UserInputs : Invoke(p, r)
createListing(p, free) == free /\ \E r \in ListingInputs : Invoke(p, r)
createBooking(p, free) == free /\ \E r \in BookingInputs : Invoke(p, r)

\* Variant: the password is checked before the e-mail.
ValidateUserPasswordFirst(r) ==
  IF \/ r.username = "" \/ r.password = "" \/ r.email = ""
     \/ r.address.streetName = <<>> \/ r.address.city = <<>> \/ r.address.postalCode = ""
  THEN Resolve(FALSE, "All fields are required.", 0)
  ELSE IF ~validatePassword(r.password)
  THEN Resolve(FALSE, "Password format is invalid.", 0)
  ELSE IF ~validateEmail(r.email) THEN Resolve(FALSE, "Invalid email format.", 0)
  ELSE Send("getUserByUsername")

\* createUser: 1. VALIDATION, then the first duplicate check.
ValidateUser(r) ==
  IF \/ r.username = "" \/ r.password = "" \/ r.email = ""
     \/ r.address.streetName = <<>> \/ r.address.city = <<>> \/ r.address.postalCode = ""
  THEN Resolve(FALSE, "All fields are required.", 0)
  ELSE IF ~validateEmail(r.email) THEN Resolve(FALSE, "Invalid email format.", 0)
  ELSE IF ~validatePassword(r.password)
  THEN Resolve(FALSE, "Password format is invalid.", 0)
  ELSE Send("getUserByUsername")

\* The body of the beginTransaction callback, up to its first storage command.
AfterBegin(r) ==
  CASE r.op = "createUser" -> ValidateUser(r)
    [] r.op = "createListing" -> Send("addressCheck")
    [] OTHER -> IF DateThrows(r.startDate) THEN RollbackWith(MsgInternal(r.op))
                ELSE Send("insertBooking")

\* START TRANSACTION: commits the transaction that is open, opens a new one.
BeginTransaction(p) ==
  /\ Runs(p, "begin")
  /\ \E ok \in BOOLEAN :
       /\ MayFail(ok)
       /\ Outcome(p, "begin", ok)
       /\ IF ok
          THEN /\ committed' = db
               /\ inTxn' = TRUE
               /\ began' = [began EXCEPT ![p] = TRUE]
               /\ Continue(p, Tail(queue), AfterBegin(req[p]), local[p])
          ELSE /\ UNCHANGED <<committed, inTxn, began>>
               /\ Continue(p, Tail(queue),
                           Resolve(FALSE, MsgTransaction(req[p].op), 0), local[p])
  /\ UNCHANGED <<db, nextId, req, ended, wrote, dupAtCall>>

\* Variant: the result of the username lookup is not looked at.
AfterUsernameUnchecked(rows) == Send("getUserByEmail")

\* authDataPool.getUserByUsername, awaited by createUser.
AfterUsername(rows) ==
  IF rows # {} THEN Resolve(FALSE, "Username already exists.", 0)
  ELSE Send("getUserByEmail")

GetUserByUsername(p) ==
  /\ Runs(p, "getUserByUsername")
  /\ \E ok \in BOOLEAN :
       /\ MayFail(ok)
       /\ Outcome(p, "getUserByUsername", ok)
       /\ Continue(p, Tail(queue),
                   IF ok THEN AfterUsername({u \in db.User : u.Username = req[p].username})
                   ELSE RollbackWith(MsgInternal(req[p].op)),
                   local[p])
  /\ UNCHANGED <<db, committed, inTxn, nextId, req, began, ended, wrote, dupAtCall>>

\* authDataPool.getUserByEmail, awaited by createUser; then bcrypt.hash.
AfterEmail(rows) ==
  IF rows # {} THEN Resolve(FALSE, "Email already registered.", 0)
  ELSE Await("hashing")

GetUserByEmail(p) ==
  /\ Runs(p, "getUserByEmail")
  /\ \E ok \in BOOLEAN :
       /\ MayFail(ok)
       /\ Outcome(p, "getUserByEmail", ok)
       /\ Continue(p, Tail(queue),
                   IF ok THEN AfterEmail({u \in db.User : u.Email = req[p].email})
                   ELSE RollbackWith(MsgInternal(req[p].op)),
                   local[p])
  /\ UNCHANGED <<db, committed, inTxn, nextId, req, began, ended, wrote, dupAtCall>>

\* bcrypt.hash resolves; createUser calls getOrCreateAddress.
HashDone(p) ==
  /\ up
  /\ pc[p] = "hashing"
  /\ Continue(p, queue, Send("addressCheck"), local[p])
  /\ UNCHANGED <<db, committed, inTxn, nextId, faults, req, began, ended, wrote,
                 fault, dupAtCall>>

\* -------------------------------------------------------- getOrCreateAddress
AddressRow(id, a) ==
  [AddressID |-> id, StreetName |-> AddressKey(a).StreetName,
   City |-> AddressKey(a).City, PostalCode |-> AddressKey(a).PostalCode]

\* Variant: the lookup compares the street name without the house number.
AddressMatchesRawStreet(rows, a) ==
  {x \in rows : /\ x.StreetName = a.streetName
                /\ x.City = a.city
                /\ x.PostalCode = a.postalCode}

\* SELECT AddressID FROM Address WHERE StreetName = ? AND City = ? AND PostalCode = ?
AddressMatches(rows, a) ==
  {x \in rows : /\ x.StreetName = AddressKey(a).StreetName
                /\ x.City = AddressKey(a).City
                /\ x.PostalCode = AddressKey(a).PostalCode}

\* The caller's statement after `await getOrCreateAddress(...)`.
AfterAddress(r) ==
  IF r.op = "createUser" THEN Send("insertUser") ELSE Send("insertListing")

\* The check query: an existing row's id is returned (checkResults[0]: the
\* store picks the order), otherwise the INSERT is handed to the connection.
AddressCheck(p) ==
  /\ Runs(p, "addressCheck")
  /\ \E ok \in BOOLEAN :
       /\ MayFail(ok)
       /\ Outcome(p, "addressCheck", ok)
       /\ LET found == AddressMatches(db.Address, req[p].address) IN
          IF ~ok THEN Continue(p, Tail(queue), RollbackWith(MsgInternal(req[p].op)),
                               local[p])
          ELSE IF found = {} THEN Continue(p, Tail(queue), Send("addressInsert"), local[p])
          ELSE \E x \in found :
                 Continue(p, Tail(queue), AfterAddress(req[p]),
                          [local[p] EXCEPT !.addressId = x.AddressID])
  /\ UNCHANGED <<db, committed, inTxn, nextId, req, began, ended, wrote, dupAtCall>>

\* INSERT INTO Address (StreetName, City, PostalCode) VALUES (?, ?, ?)
AddressInsert(p) ==
  /\ Runs(p, "addressInsert")
  /\ \E ok \in BOOLEAN :
       /\ MayFail(ok)
       /\ Outcome(p, "addressInsert", ok)
       /\ IF ok
          THEN /\ Write("Address",
                        db.Address \cup {AddressRow(nextId.Address, req[p].address)})
               /\ nextId' = [nextId EXCEPT !.Address = @ + 1]
               /\ wrote' = [wrote EXCEPT ![p] = @ \cup {<<"Address", nextId.Address>>}]
               /\ Continue(p, Tail(queue), AfterAddress(req[p]),
                           [local[p] EXCEPT !.addressId = nextId.Address])
          ELSE /\ UNCHANGED <<db, committed, nextId, wrote>>
               /\ Continue(p, Tail(queue), RollbackWith(MsgInternal(req[p].op)),
                           local[p])
  /\ UNCHANGED <<inTxn, req, began, ended, dupAtCall>>

\* ----------------------------------------------------------------- createUser
\* Variant: the role and the verification are taken from the input.
UserRowAsAsked(id, r, addressId) ==
  [UserID |-> id, Username |-> r.username, Email |-> r.email,
   PasswordHash |-> BcryptHash(r.password),
   Role |-> IF r.role = "" THEN "Seeker" ELSE r.role, IsVerified |-> r.isVerified,
   AddressLine1 |-> addressId, LastLoginDate |-> None, ProfilePictureURL |-> None,
   FirstName |-> None, LastName |-> None, PhoneNumber |-> None]

\* userValues = [username, passwordHash, email, "Seeker", 0, addressId]
UserRow(id, r, addressId) ==
  [UserID |-> id, Username |-> r.username, Email |-> r.email,
   PasswordHash |-> BcryptHash(r.password), Role |-> "Seeker", IsVerified |-> 0,
   AddressLine1 |-> addressId, LastLoginDate |-> None, ProfilePictureURL |-> None,
   FirstName |-> None, LastName |-> None, PhoneNumber |-> None]

\* if (userErr) return conn.rollback(() => resolve({success: false, ...}))
\* Variant: the error is reported without rolling back.
OnUserErrorNoRollback == Resolve(FALSE, "Database error during user creation.", 0)

OnUserError == RollbackWith("Database error during user creation.")

\* 5. INSERT USER, then 6. COMMIT TRANSACTION.
InsertUser(p) ==
  /\ Runs(p, "insertUser")
  /\ \E ok \in BOOLEAN :
       /\ MayFail(ok)
       /\ Outcome(p, "insertUser", ok)
       /\ IF ok
          THEN /\ Write("User",
                        db.User \cup {UserRow(nextId.User, req[p], local[p].addressId)})
               /\ nextId' = [nextId EXCEPT !.User = @ + 1]
               /\ wrote' = [wrote EXCEPT ![p] = @ \cup {<<"User", nextId.User>>}]
               /\ Continue(p, Tail(queue), Send("commit"),
                           [local[p] EXCEPT !.newId = nextId.User])
          ELSE /\ UNCHANGED <<db, committed, nextId, wrote>>
               /\ Continue(p, Tail(queue), OnUserError, local[p])
  /\ UNCHANGED <<inTxn, req, began, ended, dupAtCall>>

\* -------------------------------------------------------------- createListing
\* The capacity column is chosen by storageType === "ItemSlot".
\* Variant: the capacity always goes to TotalCapacity_Slots.
ListingRowSlotsOnly(id, r, addressId, now) ==
  [ListingID |-> id, ProviderID |-> r.providerId, StorageType |-> r.storageType,
   TotalCapacity_Slots |-> r.capacity, CapacitySQMeter |-> None,
   AddressID |-> addressId, CreationDate |-> now, Status |-> "Active"]

ListingRow(id, r, addressId, now) ==
  [ListingID |-> id, ProviderID |-> r.providerId, StorageType |-> r.storageType,
   TotalCapacity_Slots |-> IF r.storageType = "ItemSlot" THEN r.capacity ELSE None,
   CapacitySQMeter |-> IF r.storageType = "ItemSlot" THEN None ELSE r.capacity,
   AddressID |-> addressId, CreationDate |-> now, Status |-> "Active"]

\* NOW() in the listing insert: the store's clock counts whole seconds and
\* never runs backwards, so a new listing is stamped with the second of the
\* latest listing the connection sees or with a later one.
Latest(rows) ==
  IF rows = {} THEN 0
  ELSE CHOOSE t \in {l.CreationDate : l \in rows} :
         \A l \in rows : l.CreationDate <= t

Now(rows) == IF rows = {} THEN {1} ELSE {Latest(rows), Latest(rows) + 1}

\* images.map(...) in the listing insert's callback: a TypeError without images.
AfterInsertListing(r) ==
  IF r.images = None THEN Throw ELSE Send("insertAttachments")

InsertListing(p) ==
  /\ Runs(p, "insertListing")
  /\ \E ok \in BOOLEAN, now \in Now(db.Listing) :
       /\ MayFail(ok)
       /\ Outcome(p, "insertListing", ok)
       /\ ok \/ now = Latest(db.Listing) + 1
       /\ IF ok
          THEN /\ Write("Listing",
                        db.Listing
                          \cup {ListingRow(nextId.Listing, req[p],
                                           local[p].addressId, now)})
               /\ nextId' = [nextId EXCEPT !.Listing = @ + 1]
               /\ wrote' = [wrote EXCEPT ![p] = @ \cup {<<"Listing", nextId.Listing>>}]
               /\ Continue(p, Tail(queue), AfterInsertListing(req[p]),
                           [local[p] EXCEPT !.newId = nextId.Listing])
          ELSE /\ UNCHANGED <<db, committed, nextId, wrote>>
               /\ Continue(p, Tail(queue),
                           RollbackWith("DB error on listing creation."), local[p])
  /\ UNCHANGED <<inTxn, req, began, ended, dupAtCall>>

\* Variant: every image is stored as the primary one.
AttachmentRowsAllPrimary(first, listingId, images) ==
  {[AttachmentID |-> first + i - 1, ListingID |-> listingId,
    FileURL |-> images[i].path, IsPrimary |-> 1] : i \in 1..Len(images)}

AttachmentRows(first, listingId, images) ==
  {[AttachmentID |-> first + i - 1, ListingID |-> listingId,
    FileURL |-> images[i].path, IsPrimary |-> IF images[i].isPrimary THEN 1 ELSE 0] :
     i \in 1..Len(images)}

\* if (attachmentErr) return conn.rollback(() => resolve({success: false, ...}))
\* Variant: the error is reported without rolling back.
OnAttachmentErrorNoRollback == Resolve(FALSE, "DB error on attachment creation.", 0)

OnAttachmentError == RollbackWith("DB error on attachment creation.")

\* INSERT INTO Attachment (...) VALUES ?  -- one statement for all images; with
\* no image the statement has no VALUES list and the store rejects it.
InsertAttachments(p) ==
  /\ Runs(p, "insertAttachments")
  /\ LET images == Get(req[p].images) IN
     \E ok \in BOOLEAN :
       /\ MayFail(ok)
       /\ images = <<>> => ok
       /\ faults' = IF ok THEN faults ELSE faults + 1
       /\ fault' = IF ok /\ images # <<>> THEN fault
                   ELSE [fault EXCEPT ![p] = "insertAttachments"]
       /\ IF ok /\ images # <<>>
          THEN /\ Write("Attachment",
                        db.Attachment
                          \cup AttachmentRows(nextId.Attachment, local[p].newId, images))
               /\ nextId' = [nextId EXCEPT !.Attachment = @ + Len(images)]
               /\ wrote' = [wrote EXCEPT ![p] = @ \cup
                    {<<"Attachment", nextId.Attachment + i - 1>> : i \in 1..Len(images)}]
               /\ Continue(p, Tail(queue), Send("commit"), local[p])
          ELSE /\ UNCHANGED <<db, committed, nextId, wrote>>
               /\ Continue(p, Tail(queue), OnAttachmentError, local[p])
  /\ UNCHANGED <<inTxn, req, began, ended, dupAtCall>>

\* -------------------------------------------------------------- createBooking
\* INSERT INTO Booking (...) VALUES (?, ?, ?, ?, ?, NOW(), 'Pending')
\* Variant: the status is taken from the request when it carries one.
BookingRowStatusFromRequest(id, r) ==
  [BookingID |-> id, ListingID |-> r.listingId, SeekerID |-> r.seekerId,
   StartDate |-> formatMySqlDateTime(r.startDate),
   BookingStatus |-> IF r.status = "" THEN "Pending" ELSE r.status,
   RequestedCapacity_SQMeters |-> None]

BookingRow(id, r) ==
  [BookingID |-> id, ListingID |-> r.listingId, SeekerID |-> r.seekerId,
   StartDate |-> formatMySqlDateTime(r.startDate), BookingStatus |-> "Pending",
   RequestedCapacity_SQMeters |-> None]

\* Variant: the items branch does not test storageType.
AfterInsertBookingItemsFirst(r) ==
  IF IsSome(r.items) /\ Len(Get(r.items)) > 0 THEN Send("insertBookingItems")
  ELSE IF r.storageType = "SquareMeter" THEN Send("updateBookingCapacity")
  ELSE Send("commit")

\* The branch in the booking insert's callback; items.length is read only when
\* storageType === "ItemSlot", and is a TypeError without items.
AfterInsertBooking(r) ==
  IF r.storageType = "ItemSlot" /\ r.items = None THEN Throw
  ELSE IF r.storageType = "ItemSlot" /\ Len(Get(r.items)) > 0
  THEN Send("insertBookingItems")
  ELSE IF r.storageType = "SquareMeter" THEN Send("updateBookingCapacity")
  ELSE Send("commit")

InsertBooking(p) ==
  /\ Runs(p, "insertBooking")
  /\ \E ok \in BOOLEAN :
       /\ MayFail(ok)
       /\ Outcome(p, "insertBooking", ok)
       /\ IF ok
          THEN /\ Write("Booking", db.Booking \cup {BookingRow(nextId.Booking, req[p])})
               /\ nextId' = [nextId EXCEPT !.Booking = @ + 1]
               /\ wrote' = [wrote EXCEPT ![p] = @ \cup {<<"Booking", nextId.Booking>>}]
               /\ Continue(p, Tail(queue), AfterInsertBooking(req[p]),
                           [local[p] EXCEPT !.newId = nextId.Booking])
          ELSE /\ UNCHANGED <<db, committed, nextId, wrote>>
               /\ Continue(p, Tail(queue),
                           RollbackWith("DB error on booking creation."), local[p])
  /\ UNCHANGED <<inTxn, req, began, ended, dupAtCall>>

\* items.map((item) => [newBookingId, item.categoryId, item.quantity])
BookingItemRows(first, bookingId, items) ==
  {[BookingItemID |-> first + i - 1, BookingID |-> bookingId,
    CategoryID |-> items[i].categoryId, Quantity |-> items[i].quantity] :
     i \in 1..Len(items)}

\* if (itemsErr) return conn.rollback(() => resolve({success: false, ...}))
\* Variant: the error is reported without rolling back.
OnItemsErrorNoRollback == Resolve(FALSE, "DB error on booking item creation.", 0)

OnItemsError == RollbackWith("DB error on booking item creation.")

\* INSERT INTO BookingItem (BookingID, CategoryID, Quantity) VALUES ?
InsertBookingItems(p) ==
  /\ Runs(p, "insertBookingItems")
  /\ LET items == Get(req[p].items) IN
     \E ok \in BOOLEAN :
       /\ MayFail(ok)
       /\ Outcome(p, "insertBookingItems", ok)
       /\ IF ok
          THEN /\ Write("BookingItem",
                        db.BookingItem
                          \cup BookingItemRows(nextId.BookingItem, local[p].newId, items))
               /\ nextId' = [nextId EXCEPT !.BookingItem = @ + Len(items)]
               /\ wrote' = [wrote EXCEPT ![p] = @ \cup
                    {<<"BookingItem", nextId.BookingItem + i - 1>> : i \in 1..Len(items)}]
               /\ Continue(p, Tail(queue), Send("commit"), local[p])
          ELSE /\ UNCHANGED <<db, committed, nextId, wrote>>
               /\ Continue(p, Tail(queue), OnItemsError, local[p])
  /\ UNCHANGED <<inTxn, req, began, ended, dupAtCall>>

\* UPDATE Booking SET RequestedCapacity_SQMeters = ? WHERE BookingID = ?
SetRequestedCapacity(rows, bookingId, requestedSqm) ==
  {IF b.BookingID = bookingId
   THEN [b EXCEPT !.RequestedCapacity_SQMeters = requestedSqm] ELSE b : b \in rows}

UpdateBookingCapacity(p) ==
  /\ Runs(p, "updateBookingCapacity")
  /\ \E ok \in BOOLEAN :
       /\ MayFail(ok)
       /\ Outcome(p, "updateBookingCapacity", ok)
       /\ IF ok
          THEN /\ Write("Booking",
                        SetRequestedCapacity(db.Booking, local[p].newId,
                                             req[p].requestedSqm))
               /\ Continue(p, Tail(queue), Send("commit"), local[p])
          ELSE /\ UNCHANGED <<db, committed>>
               /\ Continue(p, Tail(queue),
                           RollbackWith("DB error updating booking capacity."), local[p])
  /\ UNCHANGED <<inTxn, nextId, req, began, ended, wrote, dupAtCall>>

\* ------------------------------------------------------------- getListingById
getListingById(p, free) ==
  free /\ \E r \in ListingIdInputs : Start(p, r, Send("getListingById"))

\* FROM Listing l JOIN Address a ON l.AddressID = a.AddressID WHERE l.ListingID = ?
JoinedListings(store, listingId) ==
  {l \in store.Listing :
     l.ListingID = listingId /\ \E a \in store.Address : a.AddressID = l.AddressID}

\* LEFT JOIN Attachment att ON l.ListingID = att.ListingID
AttachmentsOf(store, listingId) == {att \in store.Attachment : att.ListingID = listingId}

\* The orders in which the store may hand the rows of a group to GROUP_CONCAT.
Orders(S) ==
  {f \in [1..Cardinality(S) -> S] :
     \A i, j \in 1..Cardinality(S) : i # j => f[i] # f[j]}

Digits == <<"0", "1", "2", "3", "4", "5", "6", "7", "8", "9">>
IsDigit(c) == \E d \in 1..Len(Digits) : Digits[d] = c
DigitValue(c) == (CHOOSE d \in 1..Len(Digits) : Digits[d] = c) - 1

\* A TINYINT column (0 or 1) as text.
NumberText(n) == <<Digits[n + 1]>>

\* CONCAT(att.FileURL, ';', att.IsPrimary)
ConcatAttachment(att) == att.FileURL \o <<";">> \o NumberText(att.IsPrimary)

\* GROUP_CONCAT(...): the rows' texts joined by ','.
RECURSIVE GroupConcat(_)
GroupConcat(atts) ==
  IF Len(atts) = 1 THEN ConcatAttachment(atts[1])
  ELSE ConcatAttachment(atts[1]) \o <<",">> \o GroupConcat(Tail(atts))

\* String.prototype.split(separator)
RECURSIVE Split(_, _)
Split(str, separator) ==
  IF \E i \in 1..Len(str) : str[i] = separator
  THEN LET i == CHOOSE k \in 1..Len(str) :
                  str[k] = separator /\ \A m \in 1..(k - 1) : str[m] # separator
       IN <<SubSeq(str, 1, i - 1)>> \o Split(SubSeq(str, i + 1, Len(str)), separator)
  ELSE <<str>>

\* parseInt: the number the leading digits spell, NaN without a leading digit
\* (and for undefined).
NaN == 0 - 1

RECURSIVE LeadingNumber(_, _)
LeadingNumber(str, sofar) ==
  IF str # <<>> /\ IsDigit(Head(str))
  THEN LeadingNumber(Tail(str), 10 * sofar + DigitValue(Head(str)))
  ELSE sofar

parseInt(o) ==
  IF IsSome(o) /\ Get(o) # <<>> /\ IsDigit(Head(Get(o))) THEN LeadingNumber(Get(o), 0)
  ELSE NaN

\* const [url, isPrimary] = imgStr.split(";")
ParseImage(imgStr) ==
  LET parts == Split(imgStr, ";") IN
  [FileURL |-> parts[1],
   IsPrimary |-> parseInt(IF Len(parts) >= 2 THEN Some(parts[2]) ELSE None)]

\* listing.Images.split(",").map(...)
ParseImages(str) ==
  LET strs == Split(str, ",") IN [i \in 1..Len(strs) |-> ParseImage(strs[i])]

\* Array.prototype.sort((a, b) => b.IsPrimary - a.IsPrimary): stable; a NaN
\* from the comparator counts as 0, which makes the comparator inconsistent
\* and the order implementation-defined.
RECURSIVE InsertImage(_, _)
InsertImage(x, sorted) ==
  IF sorted = <<>> THEN <<x>>
  ELSE IF Head(sorted).IsPrimary <= x.IsPrimary THEN <<x>> \o sorted
  ELSE <<Head(sorted)>> \o InsertImage(x, Tail(sorted))

RECURSIVE StableSort(_)
StableSort(list) ==
  IF list = <<>> THEN <<>> ELSE InsertImage(Head(list), StableSort(Tail(list)))

SortImages(list) ==
  IF \A i \in 1..Len(list) : list[i].IsPrimary # NaN THEN {StableSort(list)}
  ELSE {[i \in 1..Len(list) |-> list[f[i]]] : f \in Orders(1..Len(list))}

\* The listing object: l.*, a.City, a.StreetName, and Images.
ListingWithImages(l, a, images) ==
  [f \in DOMAIN l \cup {"City", "StreetName", "Images"} |->
     CASE f = "City" -> a.City
       [] f = "StreetName" -> a.StreetName
       [] f = "Images" -> images
       [] OTHER -> l[f]]

\* The values the query's callback may resolve with: null for no row, the
\* listing with its images otherwise (an empty list for a NULL Images).
ListingResults(store, listingId) ==
  IF JoinedListings(store, listingId) = {} THEN {None}
  ELSE UNION {{Some(ListingWithImages(l, a, images)) :
                 a \in {x \in store.Address : x.AddressID = l.AddressID},
                 images \in IF AttachmentsOf(store, listingId) = {} THEN {<<>>}
                            ELSE UNION {SortImages(ParseImages(GroupConcat(order))) :
                                          order \in Orders(AttachmentsOf(store,
                                                                           listingId))}} :
              l \in JoinedListings(store, listingId)}

\* The query and its callback: reject(err), resolve(listing) or resolve(null).
GetListingById(p) ==
  /\ Runs(p, "getListingById")
  /\ \E ok \in BOOLEAN :
       /\ MayFail(ok)
       /\ Outcome(p, "getListingById", ok)
       /\ IF ok
          THEN \E data \in ListingResults(db, req[p].listingId) :
                 Continue(p, Tail(queue), ResolveData(data # None, "", data), local[p])
          ELSE Continue(p, Tail(queue), Reject, local[p])
  /\ UNCHANGED <<db, committed, inTxn, nextId, req, began, ended, wrote, dupAtCall>>

\* ------------------------------------------- getAllListings, searchListings
\* FROM Listing l JOIN Address a ON l.AddressID = a.AddressID
\* LEFT JOIN Attachment att ON l.ListingID = att.ListingID AND att.IsPrimary = 1:
\* one row per primary attachment of a listing, one row (att NULL) without any.
PrimaryOf(store, listingId) ==
  {att \in AttachmentsOf(store, listingId) : att.IsPrimary = 1}

SummaryJoin(store) ==
  UNION {{<<l, a, att>> :
            a \in {x \in store.Address : x.AddressID = l.AddressID},
            att \in IF PrimaryOf(store, l.ListingID) = {} THEN {None}
                    ELSE {Some(x) : x \in PrimaryOf(store, l.ListingID)}} :
         l \in store.Listing}

\* The selected columns.
Summary(row) ==
  [ListingID |-> row[1].ListingID, StorageType |-> row[1].StorageType,
   TotalCapacity_Slots |-> row[1].TotalCapacity_Slots,
   CapacitySQMeter |-> row[1].CapacitySQMeter,
   City |-> row[2].City, StreetName |-> row[2].StreetName,
   PrimaryImage |-> IF row[3] = None THEN None ELSE Some(Get(row[3]).FileURL)]

\* ORDER BY l.CreationDate DESC: rows of one second come in any order.
ByCreationDateDesc(rows) ==
  {[i \in 1..Cardinality(rows) |-> Summary(f[i])] :
     f \in {g \in Orders(rows) :
              \A i, j \in 1..Cardinality(rows) :
                 i < j => g[i][1].CreationDate >= g[j][1].CreationDate}}

\* text LIKE pattern: % stands for any text, _ for any one character and a
\* backslash makes the character after it literal.
RECURSIVE Like(_, _)
Like(text, pattern) ==
  IF pattern = <<>> THEN text = <<>>
  ELSE IF Head(pattern) = "%"
  THEN Like(text, Tail(pattern)) \/ (text # <<>> /\ Like(Tail(text), pattern))
  ELSE IF Head(pattern) = "\\" /\ Len(pattern) > 1
  THEN text # <<>> /\ Head(text) = pattern[2]
         /\ Like(Tail(text), Tail(Tail(pattern)))
  ELSE text # <<>> /\ (Head(pattern) = "_" \/ Head(pattern) = Head(text))
         /\ Like(Tail(text), Tail(pattern))

\* const searchValue = `%${searchTerm}%`
SearchValue(searchTerm) == <<"%">> \o searchTerm \o <<"%">>

\* WHERE a.City LIKE ? OR a.StreetName LIKE ?
SearchJoin(store, searchTerm) ==
  {row \in SummaryJoin(store) :
     \/ Like(row[2].City, SearchValue(searchTerm))
     \/ Like(row[2].StreetName, SearchValue(searchTerm))}

getAllListings(p, free) ==
  free /\ Start(p, [NoReq EXCEPT !.op = "getAllListings"], Send("getAllListings"))

searchListings(p, free) ==
  free /\ \E r \in SearchInputs : Start(p, r, Send("searchListings"))

\* conn.query(query, (err, results) => err ? reject(err) : resolve(results))
GetAllListings(p) ==
  /\ Runs(p, "getAllListings")
  /\ \E ok \in BOOLEAN :
       /\ MayFail(ok)
       /\ Outcome(p, "getAllListings", ok)
       /\ IF ok
          THEN \E results \in ByCreationDateDesc(SummaryJoin(db)) :
                 Continue(p, Tail(queue), ResolveData(TRUE, "", Some(results)), local[p])
          ELSE Continue(p, Tail(queue), Reject, local[p])
  /\ UNCHANGED <<db, committed, inTxn, nextId, req, began, ended, wrote, dupAtCall>>

SearchListings(p) ==
  /\ Runs(p, "searchListings")
  /\ \E ok \in BOOLEAN :
       /\ MayFail(ok)
       /\ Outcome(p, "searchListings", ok)
       /\ IF ok
          THEN \E results \in ByCreationDateDesc(SearchJoin(db, req[p].searchTerm)) :
                 Continue(p, Tail(queue), ResolveData(TRUE, "", Some(results)), local[p])
          ELSE Continue(p, Tail(queue), Reject, local[p])
  /\ UNCHANGED <<db, committed, inTxn, nextId, req, began, ended, wrote, dupAtCall>>

\* ----------------------------------------------------------- authenticateUser
\* Variant: a storage error is reported as invalid credentials.
MsgAuthAsInvalid == "Invalid credentials."

\* catch (error) { return {success: false, message: ...} }
MsgAuthInternal == "Internal error during authentication"

\* if (!identifier || !password) return {success: false, ...}
BeforeAuthLookup(r) ==
  IF r.identifier = "" \/ r.password = ""
  THEN Resolve(FALSE, "Username/Email and password are required", 0)
  ELSE Send("authLookup")

authenticateUser(p, free) ==
  free /\ \E r \in AuthInputs : Start(p, r, BeforeAuthLookup(r))

\* Variant: the columns are swapped.
AuthMatchesSwapped(rows, identifier) ==
  IF validateEmail(identifier) THEN {u \in rows : u.Username = identifier}
  ELSE {u \in rows : u.Email = identifier}

\* SELECT * FROM User WHERE Email = ?  when validator.isEmail(identifier),
\* SELECT * FROM User WHERE Username = ?  otherwise.
AuthMatches(rows, identifier) ==
  IF validateEmail(identifier) THEN {u \in rows : u.Email = identifier}
  ELSE {u \in rows : u.Username = identifier}

\* Variant: a missing account gets a message of its own.
AfterAuthLookupNamesMissing(users) ==
  IF users = {} THEN Resolve(FALSE, "User not found.", 0) ELSE Await("comparing")

\* if (users.length === 0) return {success: false, message: "Invalid credentials."}
AfterAuthLookup(users) ==
  IF users = {} THEN Resolve(FALSE, "Invalid credentials.", 0) ELSE Await("comparing")

\* The lookup; users[0] is any of the matching rows.  A failed query is caught
\* by the operation's try block.
AuthLookup(p) ==
  /\ Runs(p, "authLookup")
  /\ \E ok \in BOOLEAN :
       /\ MayFail(ok)
       /\ Outcome(p, "authLookup", ok)
       /\ LET users == AuthMatches(db.User, req[p].identifier) IN
          IF ~ok THEN Continue(p, Tail(queue), Resolve(FALSE, MsgAuthInternal, 0),
                               local[p])
          ELSE IF users = {} THEN Continue(p, Tail(queue), AfterAuthLookup(users),
                                           local[p])
          ELSE \E u \in users :
                 Continue(p, Tail(queue), AfterAuthLookup(users),
                          [local[p] EXCEPT !.user = Some(u)])
  /\ UNCHANGED <<db, committed, inTxn, nextId, req, began, ended, wrote, dupAtCall>>

\* bcrypt.compare(password, hash)
BcryptCompare(password, hash) == hash.of = password

\* Variant: the login goes on whatever the comparison says.
AfterCompareUnchecked(passwordMatch) == Send("updateLastLogin")

\* if (!passwordMatch) return {success: false, message: "Invalid credentials."}
AfterCompare(passwordMatch) ==
  IF ~passwordMatch THEN Resolve(FALSE, "Invalid credentials.", 0)
  ELSE Send("updateLastLogin")

\* bcrypt.compare resolves.
CompareDone(p) ==
  /\ up
  /\ pc[p] = "comparing"
  /\ Continue(p, queue,
              AfterCompare(BcryptCompare(req[p].password,
                                         Get(local[p].user).PasswordHash)),
              local[p])
  /\ UNCHANGED <<db, committed, inTxn, nextId, faults, req, began, ended, wrote,
                 fault, dupAtCall>>

\* UPDATE User SET LastLoginDate = NOW() WHERE UserID = ?
SetLastLogin(rows, userId) ==
  {IF u.UserID = userId THEN [u EXCEPT !.LastLoginDate = Some("NOW")] ELSE u :
     u \in rows}

\* Variant: the row is returned as it was fetched.
StripNothing(user) == user

\* const { PasswordHash, ...userWithoutPassword } = user
StripHash(user) == [f \in DOMAIN user \ {"PasswordHash"} |-> user[f]]

\* router.post("/login"): if (result.success) req.session.userId = ...
Routed(r, c) == IF r.route = "login" /\ c.res.success THEN LoggedIn(c) ELSE c

\* authDataPool.updateLastLogin, awaited in the try block; then the result.
UpdateLastLogin(p) ==
  /\ Runs(p, "updateLastLogin")
  /\ \E ok \in BOOLEAN :
       /\ MayFail(ok)
       /\ Outcome(p, "updateLastLogin", ok)
       /\ LET user == Get(local[p].user) IN
          IF ok
          THEN /\ Write("User", SetLastLogin(db.User, user.UserID))
               /\ Continue(p, Tail(queue),
                           Routed(req[p],
                                  ResolveData(TRUE, "Authentication successful",
                                              Some(StripHash(user)))),
                           local[p])
          ELSE /\ UNCHANGED <<db, committed>>
               /\ Continue(p, Tail(queue), Resolve(FALSE, MsgAuthInternal, 0),
                           local[p])
  /\ UNCHANGED <<inTxn, nextId, req, began, ended, wrote, dupAtCall>>

\* --------------------------------------------------- single-statement updates
updateVerificationStatus(p, free) ==
  free /\ \E r \in VerificationInputs : Start(p, r, Send("updateVerification"))

\* UPDATE User SET IsVerified = ? WHERE UserID = ?
SetVerified(rows, userId, isVerified) ==
  {IF u.UserID = userId THEN [u EXCEPT !.IsVerified = isVerified] ELSE u : u \in rows}

\* The query's callback: reject(err) on an error, resolve({success: true, ...}).
UpdateVerification(p) ==
  /\ Runs(p, "updateVerification")
  /\ \E ok \in BOOLEAN :
       /\ MayFail(ok)
       /\ Outcome(p, "updateVerification", ok)
       /\ IF ok
          THEN /\ Write("User", SetVerified(db.User, req[p].userId, req[p].isVerified))
               /\ Continue(p, Tail(queue),
                           Resolve(TRUE, "Verification status updated successfully", 0),
                           local[p])
          ELSE /\ UNCHANGED <<db, committed>>
               /\ Continue(p, Tail(queue), Reject, local[p])
  /\ UNCHANGED <<inTxn, nextId, req, began, ended, wrote, dupAtCall>>

updateProfilePicture(p, free) ==
  free /\ \E r \in PictureInputs : Start(p, r, Send("updateProfilePicture"))

\* UPDATE User SET ProfilePictureURL = ? WHERE UserID = ?
SetProfilePicture(rows, userId, filePath) ==
  {IF u.UserID = userId THEN [u EXCEPT !.ProfilePictureURL = Some(filePath)] ELSE u :
     u \in rows}

\* The query's callback: reject(err) on an error, resolve({success: true, ...}).
UpdateProfilePicture(p) ==
  /\ Runs(p, "updateProfilePicture")
  /\ \E ok \in BOOLEAN :
       /\ MayFail(ok)
       /\ Outcome(p, "updateProfilePicture", ok)
       /\ IF ok
          THEN /\ Write("User",
                        SetProfilePicture(db.User, req[p].userId, req[p].filePath))
               /\ Continue(p, Tail(queue),
                           ResolveData(TRUE, "Profile picture updated.",
                                       Some([filePath |-> req[p].filePath])),
                           local[p])
          ELSE /\ UNCHANGED <<db, committed>>
               /\ Continue(p, Tail(queue), Reject, local[p])
  /\ UNCHANGED <<inTxn, nextId, req, began, ended, wrote, dupAtCall>>

\* ------------------------------------------ updatePassword, updateUserDetails
MsgUpdateInternal(op) ==
  IF op = "updatePassword" THEN "Internal error during password update"
  ELSE "Internal server error."
MsgUserNotFound(op) ==
  IF op = "updatePassword" THEN "User not found" ELSE "User not found."
MsgWrongCurrent(op) ==
  IF op = "updatePassword" THEN "Current password is incorrect"
  ELSE "Incorrect password."

\* updatePassword: the required arguments, then validatePassword(newPassword).
BeforePasswordUpdate(r) ==
  IF r.userId = 0 \/ r.currentPassword = "" \/ r.newPassword = ""
  THEN Resolve(FALSE, "User ID, current password, and new password are required", 0)
  ELSE IF ~validatePassword(r.newPassword)
  THEN Resolve(FALSE, "New password must be at least 8 characters with uppercase, lowercase, and number", 0)
  ELSE Send("getUserById")

updatePassword(p, free) ==
  free /\ \E r \in PasswordInputs : Start(p, r, BeforePasswordUpdate(r))

updateUserDetails(p, free) ==
  free /\ \E r \in DetailsInputs : Start(p, r, Send("getUserById"))

\* SELECT * FROM User WHERE UserID = ?
UsersById(rows, userId) == {u \in rows : u.UserID = userId}

\* if (users.length === 0) return {success: false, message: "User not found"}
AfterGetUserById(op, users) ==
  IF users = {} THEN Resolve(FALSE, MsgUserNotFound(op), 0) ELSE Await("confirming")

\* await authDataPool.getUserById(userId); a failed query is caught by the
\* operation's try block.
GetUserById(p) ==
  /\ Runs(p, "getUserById")
  /\ \E ok \in BOOLEAN :
       /\ MayFail(ok)
       /\ Outcome(p, "getUserById", ok)
       /\ LET users == UsersById(db.User, req[p].userId) IN
          IF ~ok THEN Continue(p, Tail(queue),
                               Resolve(FALSE, MsgUpdateInternal(req[p].op), 0), local[p])
          ELSE IF users = {}
          THEN Continue(p, Tail(queue), AfterGetUserById(req[p].op, users), local[p])
          ELSE \E u \in users :
                 Continue(p, Tail(queue), AfterGetUserById(req[p].op, users),
                          [local[p] EXCEPT !.user = Some(u)])
  /\ UNCHANGED <<db, committed, inTxn, nextId, req, began, ended, wrote, dupAtCall>>

\* Variant: the update goes ahead whatever the comparison says.
AfterConfirmUnchecked(r, passwordMatch) ==
  IF r.currentPassword = "" THEN Resolve(FALSE, MsgUpdateInternal(r.op), 0)
  ELSE IF r.op = "updatePassword" THEN Await("hashingNew")
  ELSE Send("updateDetails")

\* bcrypt.compare(currentPassword, user.PasswordHash) throws without a
\* currentPassword (updateUserDetails; caught by the try block); a mismatch
\* returns; a match goes on to the update.
AfterConfirm(r, passwordMatch) ==
  IF r.currentPassword = "" THEN Resolve(FALSE, MsgUpdateInternal(r.op), 0)
  ELSE IF ~passwordMatch THEN Resolve(FALSE, MsgWrongCurrent(r.op), 0)
  ELSE IF r.op = "updatePassword" THEN Await("hashingNew")
  ELSE Send("updateDetails")

\* bcrypt.compare resolves.
ConfirmDone(p) ==
  /\ up
  /\ pc[p] = "confirming"
  /\ Continue(p, queue,
              AfterConfirm(req[p], BcryptCompare(req[p].currentPassword,
                                                 Get(local[p].user).PasswordHash)),
              local[p])
  /\ UNCHANGED <<db, committed, inTxn, nextId, faults, req, began, ended, wrote,
                 fault, dupAtCall>>

\* bcrypt.hash(newPassword, saltRounds) resolves.
NewHashDone(p) ==
  /\ up
  /\ pc[p] = "hashingNew"
  /\ Continue(p, queue, Send("updatePasswordHash"), local[p])
  /\ UNCHANGED <<db, committed, inTxn, nextId, faults, req, began, ended, wrote,
                 fault, dupAtCall>>

\* Variant: the statement changes no row.
SetPasswordHashNowhere(rows, userId, hash) == rows

\* UPDATE User SET PasswordHash = ? WHERE UserID = ?
SetPasswordHash(rows, userId, hash) ==
  {IF u.UserID = userId THEN [u EXCEPT !.PasswordHash = hash] ELSE u : u \in rows}

\* The query's callback resolves either way.
UpdatePasswordHash(p) ==
  /\ Runs(p, "updatePasswordHash")
  /\ \E ok \in BOOLEAN :
       /\ MayFail(ok)
       /\ Outcome(p, "updatePasswordHash", ok)
       /\ IF ok
          THEN /\ Write("User", SetPasswordHash(db.User, req[p].userId,
                                                BcryptHash(req[p].newPassword)))
               /\ Continue(p, Tail(queue),
                           Resolve(TRUE, "Password updated successfully", 0), local[p])
          ELSE /\ UNCHANGED <<db, committed>>
               /\ Continue(p, Tail(queue),
                           Resolve(FALSE, "Database error during password update", 0),
                           local[p])
  /\ UNCHANGED <<inTxn, nextId, req, began, ended, wrote, dupAtCall>>

\* A bound value that was left out is stored as NULL.
Column(v) == IF v = "" THEN None ELSE Some(v)

\* UPDATE User SET FirstName = ?, LastName = ?, Email = ?, PhoneNumber = ?
\* WHERE UserID = ?
SetDetails(rows, userId, r) ==
  {IF u.UserID = userId
   THEN [u EXCEPT !.FirstName = Column(r.firstName), !.LastName = Column(r.lastName),
                  !.Email = r.email, !.PhoneNumber = Column(r.phoneNumber)]
   ELSE u : u \in rows}

\* The promise the operation returns without awaiting it: reject(err) on an
\* error (past the try block), resolve({success: true, ...}) otherwise.
UpdateDetails(p) ==
  /\ Runs(p, "updateDetails")
  /\ \E ok \in BOOLEAN :
       /\ MayFail(ok)
       /\ Outcome(p, "updateDetails", ok)
       /\ IF ok
          THEN /\ Write("User", SetDetails(db.User, req[p].userId, req[p]))
               /\ Continue(p, Tail(queue),
                           Resolve(TRUE, "Account details updated successfully.", 0),
                           local[p])
          ELSE /\ UNCHANGED <<db, committed>>
               /\ Continue(p, Tail(queue), Reject, local[p])
  /\ UNCHANGED <<inTxn, nextId, req, began, ended, wrote, dupAtCall>>

\* ------------------------------------------------------------------- routes
\* The checks a route makes before it calls the store: 401 without
\* req.session.userId, 400 without uploaded files; 0 when the call is made.
Guard(r) ==
  IF r.session = None THEN 401
  ELSE IF r.route = "create" /\ r.files = <<>> THEN 400
  ELSE IF r.route = "updatePicture" /\ r.filePath = <<>> THEN 400
  ELSE 0

GuardMessage(r) ==
  IF r.session # None
  THEN IF r.route = "create" THEN "At least one image is required."
       ELSE "No file uploaded."
  ELSE CASE r.route = "create" -> "You must be logged in."
         [] r.route = "book" -> "You must be logged in to book."
         [] OTHER -> "Unauthorized"

\* The request as the route handler sees it.
Request(route, body, s, bodyId) ==
  [body EXCEPT !.route = route, !.session = s, !.bodyId = bodyId]

\* Variant: the provider is taken from the body.
ListingDataFromBody(r) == r

\* imageFiles.map((file) => ({path: file.path,
\*                           isPrimary: file.originalname === listingData.primaryImageName}))
UploadedImages(files, primaryImageName) ==
  [i \in 1..Len(files) |->
     Image(files[i].path, files[i].originalname = primaryImageName)]

\* listingData.providerId = req.session.userId; listingData.images = ...
ListingData(r) ==
  [r EXCEPT !.providerId = Get(r.session),
            !.images = Some(UploadedImages(r.files, r.primaryImageName))]

\* bookingData.seekerId = req.session.userId
BookingData(r) == [r EXCEPT !.seekerId = Get(r.session)]

\* updateProfilePicture(req.session.userId, ...), updateUserDetails(req.session.userId, ...)
UserData(r) == [r EXCEPT !.userId = Get(r.session)]

\* router.post("/create")
postCreate(p, free) ==
  /\ free
  /\ \E s \in Sessions, body \in CreateBodies :
       LET r == Request("create", body, s, body.providerId) IN
       IF Guard(r) # 0 THEN Start(p, r, Resolve(FALSE, GuardMessage(r), 0))
       ELSE Invoke(p, ListingData(r))

\* router.post("/book")
postBook(p, free) ==
  /\ free
  /\ \E s \in Sessions, body \in BookBodies :
       LET r == Request("book", body, s, body.seekerId) IN
       IF Guard(r) # 0 THEN Start(p, r, Resolve(FALSE, GuardMessage(r), 0))
       ELSE Invoke(p, BookingData(r))

\* router.post("/update-picture") for a request that comes with session s.
UpdatePictureRoute(p, body, s) ==
  LET r == Request("updatePicture", body, s, 0) IN
  IF Guard(r) # 0 THEN Start(p, r, Resolve(FALSE, GuardMessage(r), 0))
  ELSE Start(p, UserData(r), Send("updateProfilePicture"))

postUpdatePicture(p, free) ==
  /\ free
  /\ \E s \in Sessions, body \in PictureBodies : UpdatePictureRoute(p, body, s)

\* The same route, asked by the browser whose session the state holds.
browserUpdatePicture(p, free) ==
  /\ free
  /\ \E body \in PictureBodies : UpdatePictureRoute(p, body, session)

\* router.post("/login"): authenticateUser(identifier, password) of the body.
postLogin(p, free) ==
  /\ free
  /\ \E body \in AuthInputs :
       LET r == Request("login", body, session, 0) IN
       Start(p, r, BeforeAuthLookup(r))

\* router.post("/logout"): req.session.destroy(callback).
postLogout(p, free) ==
  /\ free
  /\ Start(p, Request("logout", [NoReq EXCEPT !.op = "logout"], session, 0),
           Await("destroying"))

\* The callback of req.session.destroy: 500 on an error, else the cookie is
\* cleared and the logout answered.
SessionDestroyed(p) ==
  /\ up
  /\ pc[p] = "destroying"
  /\ \E ok \in BOOLEAN :
       Continue(p, queue,
                IF ok THEN LoggedOut
                ELSE Resolve(FALSE, "Could not log out, please try again.", 0),
                local[p])
  /\ UNCHANGED <<db, committed, inTxn, nextId, faults, req, began, ended, wrote,
                 fault, dupAtCall>>

\* router.post("/update-details")
postUpdateDetails(p, free) ==
  /\ free
  /\ \E s \in Sessions, body \in DetailsBodies :
       LET r == Request("updateDetails", body, s, 0) IN
       IF Guard(r) # 0 THEN Start(p, r, Resolve(FALSE, GuardMessage(r), 0))
       ELSE Start(p, UserData(r), Send("getUserById"))

\* What the route answers once the store call has settled: 201/400 by
\* result.success (create, book), res.json(result) (the others), 500 from the
\* catch block; or what its own check answered.
Answer(p) ==
  IF Guard(req[p]) # 0 THEN Guard(req[p])
  ELSE IF pc[p] = "rejected" THEN 500
  ELSE IF req[p].route \in {"create", "book"}
  THEN IF result[p].success THEN 201 ELSE 400
  ELSE 200

\* -------------------------------------------------------- updateBookingStatus
\* The statuses a pending booking can be moved to.
StatusTargets == {"Accepted", "Rejected", "Cancelled"}

\* The operation turns down a status that is no target of a transition.
BeforeStatusUpdate(r) ==
  IF r.status \notin StatusTargets THEN Resolve(FALSE, "Invalid booking status.", 0)
  ELSE Send("updateBookingStatus")

\* router.post("/bookings/:bookingId/update"): 401 without a session, otherwise
\* authDataPool.updateBookingStatus(bookingId, status, userId).
updateBookingStatus(p, free) ==
  /\ free
  /\ \E r \in StatusInputs :
       Start(p, r, IF Guard(r) # 0 THEN Resolve(FALSE, GuardMessage(r), 0)
                   ELSE BeforeStatusUpdate(r))

\* Variant: the update does not ask for the booking to be pending.
SetBookingStatusAnyState(rows, bookingId, status) ==
  {IF b.BookingID = bookingId THEN [b EXCEPT !.BookingStatus = status] ELSE b :
     b \in rows}

\* The pending booking bookingId gets the status; other rows are untouched.
SetBookingStatus(rows, bookingId, status) ==
  {IF b.BookingID = bookingId /\ b.BookingStatus = "Pending"
   THEN [b EXCEPT !.BookingStatus = status] ELSE b : b \in rows}

\* The conditional single-row update; it succeeds when it changed a row.
UpdateBookingStatus(p) ==
  /\ Runs(p, "updateBookingStatus")
  /\ \E ok \in BOOLEAN :
       /\ MayFail(ok)
       /\ Outcome(p, "updateBookingStatus", ok)
       /\ LET rows == SetBookingStatus(db.Booking, req[p].bookingId, req[p].status) IN
          IF ok
          THEN /\ Write("Booking", rows)
               /\ Continue(p, Tail(queue),
                           IF rows # db.Booking
                           THEN Resolve(TRUE, "Booking status updated.", req[p].bookingId)
                           ELSE Resolve(FALSE, "Booking not found or not pending.", 0),
                           local[p])
          ELSE /\ UNCHANGED <<db, committed>>
               /\ Continue(p, Tail(queue),
                           Resolve(FALSE, "Database error during booking update.", 0),
                           local[p])
  /\ UNCHANGED <<inTxn, nextId, req, began, ended, wrote, dupAtCall>>

\* ------------------------------------------------------ commit and rollback
\* conn.commit(callback): on success the promise resolves with success: true;
\* on an error the callback calls conn.rollback.  A COMMIT that fails leaves
\* the transaction open or already rolled back by the store.
Commit(p) ==
  /\ Runs(p, "commit")
  /\ \E ok \in BOOLEAN :
       /\ MayFail(ok)
       /\ Outcome(p, "commit", ok)
       /\ IF ok
          THEN /\ committed' = db
               /\ UNCHANGED db
               /\ inTxn' = FALSE
               /\ ended' = [ended EXCEPT ![p] = @ + 1]
               /\ Continue(p, Tail(queue),
                           Resolve(TRUE, MsgSuccess(req[p].op), local[p].newId), local[p])
          ELSE /\ \E undone \in BOOLEAN :
                    /\ db' = IF undone THEN committed ELSE db
                    /\ inTxn' = IF undone THEN FALSE ELSE inTxn
               /\ UNCHANGED <<committed, ended>>
               /\ Continue(p, Tail(queue), RollbackWith(MsgCommit(req[p].op)), local[p])
  /\ UNCHANGED <<nextId, req, began, wrote, dupAtCall>>

\* conn.rollback(() => resolve({success: false, message})): the callback
\* ignores its error argument.  ROLLBACK discards the open transaction (a
\* connection too broken to roll back has lost the transaction as well).
Rollback(p) ==
  /\ Runs(p, "rollback")
  /\ db' = committed
  /\ inTxn' = FALSE
  /\ ended' = [ended EXCEPT ![p] = @ + 1]
  /\ Continue(p, Tail(queue), Resolve(FALSE, local[p].message, 0), local[p])
  /\ UNCHANGED <<committed, nextId, faults, req, began, wrote, fault, dupAtCall>>

\* The process has ended on an uncaught exception: its connection closes and
\* the store rolls the open transaction back.
ConnectionLost ==
  /\ ~up
  /\ inTxn \/ db # committed
  /\ db' = committed
  /\ inTxn' = FALSE
  /\ UNCHANGED <<up, session, committed, nextId, queue, faults, pc, req, result,
                 local, began, ended, wrote, fault, dupAtCall>>

\* ----------------------------------------------------------- specifications
Step(p) ==
  \/ BeginTransaction(p)
  \/ GetUserByUsername(p)
  \/ GetUserByEmail(p)
  \/ HashDone(p)
  \/ AddressCheck(p)
  \/ AddressInsert(p)
  \/ InsertUser(p)
  \/ InsertListing(p)
  \/ InsertAttachments(p)
  \/ InsertBooking(p)
  \/ InsertBookingItems(p)
  \/ UpdateBookingCapacity(p)
  \/ Commit(p)
  \/ Rollback(p)

\* Requests arrive at any time: the calls' commands interleave on the connection.
Next ==
  \/ \E p \in Calls : createUser(p, TRUE)
  \/ \E p \in Calls : createListing(p, TRUE)
  \/ \E p \in Calls : createBooking(p, TRUE)
  \/ \E p \in Calls : Step(p)
  \/ ConnectionLost

Spec == Init /\ [][Next]_vars

\* One call at a time: a request arrives only when no call is in progress.
NextSeq ==
  \/ \E p \in Calls : createUser(p, Quiet)
  \/ \E p \in Calls : createListing(p, Quiet)
  \/ \E p \in Calls : createBooking(p, Quiet)
  \/ \E p \in Calls : Step(p)
  \/ ConnectionLost

SpecSeq == Init /\ [][NextSeq]_vars

\* One call at a time, registrations only.
NextUserSeq ==
  \/ \E p \in Calls : createUser(p, Quiet)
  \/ \E p \in Calls :
       \/ BeginTransaction(p)
       \/ GetUserByUsername(p)
       \/ GetUserByEmail(p)
       \/ HashDone(p)
       \/ AddressCheck(p)
       \/ AddressInsert(p)
       \/ InsertUser(p)
       \/ Commit(p)
       \/ Rollback(p)

SpecUserSeq == Init /\ [][NextUserSeq]_vars

\* One call at a time, listings only.
NextListingSeq ==
  \/ \E p \in Calls : createListing(p, Quiet)
  \/ \E p \in Calls :
       \/ BeginTransaction(p)
       \/ AddressCheck(p)
       \/ AddressInsert(p)
       \/ InsertListing(p)
       \/ InsertAttachments(p)
       \/ Commit(p)
       \/ Rollback(p)
  \/ ConnectionLost

SpecListingSeq == Init /\ [][NextListingSeq]_vars

\* One call at a time, bookings only.
NextBookingSeq ==
  \/ \E p \in Calls : createBooking(p, Quiet)
  \/ \E p \in Calls :
       \/ BeginTransaction(p)
       \/ InsertBooking(p)
       \/ InsertBookingItems(p)
       \/ UpdateBookingCapacity(p)
       \/ Commit(p)
       \/ Rollback(p)
  \/ ConnectionLost

SpecBookingSeq == Init /\ [][NextBookingSeq]_vars

\* One call at a time, booking status updates only.
NextStatusSeq ==
  \/ \E p \in Calls : updateBookingStatus(p, Quiet)
  \/ \E p \in Calls : UpdateBookingStatus(p)

SpecStatusSeq == Init /\ [][NextStatusSeq]_vars

\* One call at a time: logins and the single-statement user updates.
NextAuthSeq ==
  \/ \E p \in Calls : authenticateUser(p, Quiet)
  \/ \E p \in Calls : updateVerificationStatus(p, Quiet)
  \/ \E p \in Calls : updateProfilePicture(p, Quiet)
  \/ \E p \in Calls :
       \/ AuthLookup(p)
       \/ CompareDone(p)
       \/ UpdateLastLogin(p)
       \/ UpdateVerification(p)
       \/ UpdateProfilePicture(p)

SpecAuthSeq == Init /\ [][NextAuthSeq]_vars

\* One call at a time: listings are created and read back.
NextListingReadSeq ==
  \/ \E p \in Calls : createListing(p, Quiet)
  \/ \E p \in Calls : getListingById(p, Quiet)
  \/ \E p \in Calls :
       \/ BeginTransaction(p)
       \/ AddressCheck(p)
       \/ AddressInsert(p)
       \/ InsertListing(p)
       \/ InsertAttachments(p)
       \/ Commit(p)
       \/ Rollback(p)
       \/ GetListingById(p)
  \/ ConnectionLost

SpecListingReadSeq == Init /\ [][NextListingReadSeq]_vars

\* One call at a time: passwords and account details are changed.
NextCredentialSeq ==
  \/ \E p \in Calls : updatePassword(p, Quiet)
  \/ \E p \in Calls : updateUserDetails(p, Quiet)
  \/ \E p \in Calls :
       \/ GetUserById(p)
       \/ ConfirmDone(p)
       \/ NewHashDone(p)
       \/ UpdatePasswordHash(p)
       \/ UpdateDetails(p)

SpecCredentialSeq == Init /\ [][NextCredentialSeq]_vars

\* One call at a time: accounts are created and their details changed.
NextAccountSeq ==
  \/ \E p \in Calls : createUser(p, Quiet)
  \/ \E p \in Calls : updateUserDetails(p, Quiet)
  \/ \E p \in Calls :
       \/ BeginTransaction(p)
       \/ GetUserByUsername(p)
       \/ GetUserByEmail(p)
       \/ HashDone(p)
       \/ AddressCheck(p)
       \/ AddressInsert(p)
       \/ InsertUser(p)
       \/ Commit(p)
       \/ Rollback(p)
       \/ GetUserById(p)
       \/ ConfirmDone(p)
       \/ UpdateDetails(p)

SpecAccountSeq == Init /\ [][NextAccountSeq]_vars

\* One request at a time, to the routes that ask for a session.
NextRouteSeq ==
  \/ \E p \in Calls : postCreate(p, Quiet)
  \/ \E p \in Calls : postBook(p, Quiet)
  \/ \E p \in Calls : updateBookingStatus(p, Quiet)
  \/ \E p \in Calls : postUpdatePicture(p, Quiet)
  \/ \E p \in Calls : postUpdateDetails(p, Quiet)
  \/ \E p \in Calls :
       \/ BeginTransaction(p)
       \/ AddressCheck(p)
       \/ AddressInsert(p)
       \/ InsertListing(p)
       \/ InsertAttachments(p)
       \/ InsertBooking(p)
       \/ InsertBookingItems(p)
       \/ UpdateBookingCapacity(p)
       \/ Commit(p)
       \/ Rollback(p)
       \/ UpdateBookingStatus(p)
       \/ UpdateProfilePicture(p)
       \/ GetUserById(p)
       \/ ConfirmDone(p)
       \/ UpdateDetails(p)

SpecRouteSeq == Init /\ [][NextRouteSeq]_vars

\* One request at a time, from one browser: it logs in and out and asks for
\* a route that wants a session.
NextSessionSeq ==
  \/ \E p \in Calls : postLogin(p, Quiet)
  \/ \E p \in Calls : postLogout(p, Quiet)
  \/ \E p \in Calls : browserUpdatePicture(p, Quiet)
  \/ \E p \in Calls :
       \/ AuthLookup(p)
       \/ CompareDone(p)
       \/ UpdateLastLogin(p)
       \/ SessionDestroyed(p)
       \/ UpdateProfilePicture(p)

SpecSessionSeq == Init /\ [][NextSessionSeq]_vars

\* One call at a time: listings are created, listed and searched.
NextSearchSeq ==
  \/ \E p \in Calls : createListing(p, Quiet)
  \/ \E p \in Calls : getAllListings(p, Quiet)
  \/ \E p \in Calls : searchListings(p, Quiet)
  \/ \E p \in Calls :
       \/ BeginTransaction(p)
       \/ AddressCheck(p)
       \/ AddressInsert(p)
       \/ InsertListing(p)
       \/ InsertAttachments(p)
       \/ Commit(p)
       \/ Rollback(p)
       \/ GetAllListings(p)
       \/ SearchListings(p)

SpecSearchSeq == Init /\ [][NextSearchSeq]_vars

\* One request at a time: listings are uploaded through POST /listings/create,
\* then listed and searched.
NextUploadSeq ==
  \/ \E p \in Calls : postCreate(p, Quiet)
  \/ \E p \in Calls : getAllListings(p, Quiet)
  \/ \E p \in Calls : searchListings(p, Quiet)
  \/ \E p \in Calls :
       \/ BeginTransaction(p)
       \/ AddressCheck(p)
       \/ AddressInsert(p)
       \/ InsertListing(p)
       \/ InsertAttachments(p)
       \/ Commit(p)
       \/ Rollback(p)
       \/ GetAllListings(p)
       \/ SearchListings(p)

SpecUploadSeq == Init /\ [][NextUploadSeq]_vars

\* One call at a time, and the connection answers every command it was sent:
\* a callback that can run does run.
SpecSeqFair == SpecSeq /\ WF_vars(\E p \in Calls : Step(p))

\* One call at a time: passwords are changed and logins attempted.
NextPasswordSeq ==
  \/ \E p \in Calls : updatePassword(p, Quiet)
  \/ \E p \in Calls : authenticateUser(p, Quiet)
  \/ \E p \in Calls :
       \/ GetUserById(p)
       \/ ConfirmDone(p)
       \/ NewHashDone(p)
       \/ UpdatePasswordHash(p)
       \/ AuthLookup(p)
       \/ CompareDone(p)
       \/ UpdateLastLogin(p)

SpecPasswordSeq == Init /\ [][NextPasswordSeq]_vars

\* One call at a time: accounts are created and verified.
NextMemberSeq ==
  \/ \E p \in Calls : createUser(p, Quiet)
  \/ \E p \in Calls : updateVerificationStatus(p, Quiet)
  \/ \E p \in Calls :
       \/ BeginTransaction(p)
       \/ GetUserByUsername(p)
       \/ GetUserByEmail(p)
       \/ HashDone(p)
       \/ AddressCheck(p)
       \/ AddressInsert(p)
       \/ InsertUser(p)
       \/ Commit(p)
       \/ Rollback(p)
       \/ UpdateVerification(p)

SpecMemberSeq == Init /\ [][NextMemberSeq]_vars

\* =================================================================== claims
IdColumn ==
  [Address |-> "AddressID", User |-> "UserID", Listing |-> "ListingID",
   Attachment |-> "AttachmentID", Booking |-> "BookingID",
   BookingItem |-> "BookingItemID"]

Resolved(p) == pc[p] = "resolved"

\* The rows call p inserted that the store `store` holds, as <<table, id>>.
Kept(p, store) ==
  {w \in wrote[p] : \E x \in store[w[1]] : x[IdColumn[w[1]]] = w[2]}

KeptOf(p, store, tables) == {w \in Kept(p, store) : w[1] \in tables}

\* ----------------------------------------------------------------------- C1
\* C1: when createBooking's Booking insert, BookingItem insert, capacity update
\* or commit fails, the call resolves with success = false and neither its
\* Booking row nor any of its BookingItem rows is in the store afterwards
\* (calls made one at a time).
ThmC1 ==
  \A p \in Calls :
    ( /\ Resolved(p)
      /\ req[p].op = "createBooking"
      /\ fault[p] \in {"insertBooking", "insertBookingItems",
                       "updateBookingCapacity", "commit"} )
    => /\ ~result[p].success
       /\ KeptOf(p, committed, {"Booking", "BookingItem"}) = {}
       /\ KeptOf(p, db, {"Booking", "BookingItem"}) = {}

\* A booking whose row was inserted and whose item insert then failed.
WitC1 ==
  \E p \in Calls :
    /\ Resolved(p)
    /\ req[p].op = "createBooking"
    /\ fault[p] = "insertBookingItems"
    /\ <<"Booking", local[p].newId>> \in wrote[p]
    /\ ~result[p].success

\* ----------------------------------------------------------------------- C2
\* C2: when createListing's Attachment insert or commit fails, the call
\* resolves with success = false; a resolved createListing has either its
\* Listing row and one Attachment row per image in the durable store (success)
\* or no Listing and no Attachment row of its own there (failure).
ThmC2 ==
  \A p \in Calls :
    (Resolved(p) /\ req[p].op = "createListing")
    => /\ fault[p] \in {"insertAttachments", "commit"} => ~result[p].success
       /\ IF result[p].success
          THEN /\ \E l \in committed.Listing : l.ListingID = result[p].id
               /\ Cardinality({a \in committed.Attachment :
                                 a.ListingID = result[p].id})
                    = Len(Get(req[p].images))
               /\ Kept(p, committed) = wrote[p]
          ELSE /\ KeptOf(p, committed, {"Listing", "Attachment"}) = {}
               /\ KeptOf(p, db, {"Listing", "Attachment"}) = {}

\* A listing whose row was inserted and whose attachment insert then failed.
WitC2 ==
  \E p \in Calls :
    /\ Resolved(p)
    /\ req[p].op = "createListing"
    /\ fault[p] = "insertAttachments"
    /\ <<"Listing", local[p].newId>> \in wrote[p]
    /\ ~result[p].success

\* ----------------------------------------------------------------------- C3
\* C3: a createUser that passes validation and then fails leaves none of the
\* rows it wrote in the store; in particular not the Address row that
\* getOrCreateAddress inserted before the User insert failed.
ThmC3 ==
  \A p \in Calls :
    (Resolved(p) /\ req[p].op = "createUser" /\ ~result[p].success)
    => Kept(p, committed) = {} /\ Kept(p, db) = {}

\* A registration that inserted a new Address row and then failed to insert the user.
WitC3 ==
  \E p \in Calls :
    /\ Resolved(p)
    /\ req[p].op = "createUser"
    /\ fault[p] = "insertUser"
    /\ <<"Address", local[p].addressId>> \in wrote[p]
    /\ ~result[p].success

\* ----------------------------------------------------------------------- C4
\* C4: with calls interleaving on the shared connection, every resolved call
\* is all-or-nothing: the rows of a call that reported success are all
\* durable, and no row of a call that reported failure is durable.
CexC4 ==
  \A p \in Calls :
    Resolved(p) =>
      IF result[p].success THEN Kept(p, committed) = wrote[p]
      ELSE Kept(p, committed) = {}

\* ----------------------------------------------------------------------- C5
\* C5: a resolved call whose beginTransaction succeeded has ended its
\* transaction with exactly one commit or rollback, and once no call is in
\* progress the connection is not inside a transaction.
CexC5 ==
  /\ \A p \in Calls : (Resolved(p) /\ began[p]) => ended[p] = 1
  /\ (up /\ Quiet) => ~inTxn

\* ----------------------------------------------------------------------- C6
\* C6: getOrCreateAddress called again (by a later call) with the same
\* (number, streetName, city, postalCode), while the row the first call
\* returned is in the store, returns the same AddressID, inserts nothing, and
\* the store holds exactly one Address row for that street, city and postal code.
ThmC6 ==
  \A p, q \in Calls :
    ( /\ p < q
      /\ local[p].addressId # 0
      /\ local[q].addressId # 0
      /\ req[p].address = req[q].address
      /\ \E x \in committed.Address : x.AddressID = local[p].addressId )
    => /\ local[q].addressId = local[p].addressId
       /\ <<"Address", local[q].addressId>> \notin wrote[q]
       /\ Cardinality({x \in db.Address :
             /\ x.StreetName = Trim(req[p].address.number \o <<" ">>
                                      \o req[p].address.streetName)
             /\ x.City = req[p].address.city
             /\ x.PostalCode = req[p].address.postalCode}) = 1

\* The first call inserted the address (with a house number), the second found it.
WitC6 ==
  \E p, q \in Calls :
    /\ p < q
    /\ Resolved(p) /\ result[p].success
    /\ Resolved(q) /\ result[q].success
    /\ req[p].address = req[q].address
    /\ req[p].address.number # <<>>
    /\ <<"Address", local[p].addressId>> \in wrote[p]
    /\ local[q].addressId = local[p].addressId

\* ----------------------------------------------------------------------- C7
\* C7: in every reachable state, also with interleaved calls, no two durable
\* Address rows have the same (StreetName, City, PostalCode).
CexC7 ==
  \A x, y \in committed.Address :
    (x.StreetName = y.StreetName /\ x.City = y.City /\ x.PostalCode = y.PostalCode)
    => x = y

ItemsOfBooking(store, id) == {i \in store.BookingItem : i.BookingID = id}

ThmC10 ==
  \A p \in Calls :
    (Resolved(p) /\ req[p].op = "createBooking" /\ result[p].success)
    => LET id == result[p].id
           rows == ItemsOfBooking(committed, id)
           given == IF IsSome(req[p].items) THEN Get(req[p].items) ELSE <<>>
       IN /\ Cardinality({b \in committed.Booking : b.BookingID = id}) = 1
          /\ req[p].storageType = "SquareMeter"
               => /\ \A b \in committed.Booking :
                       b.BookingID = id
                         => b.RequestedCapacity_SQMeters = req[p].requestedSqm
                  /\ rows = {}
          /\ (req[p].storageType = "ItemSlot" /\ Len(given) >= 1)
               => /\ Cardinality(rows) = Len(given)
                  /\ \A i \in 1..Len(given) :
                       Cardinality({x \in rows :
                                      /\ x.CategoryID = given[i].categoryId
                                      /\ x.Quantity = given[i].quantity})
                         = Cardinality({j \in 1..Len(given) : given[j] = given[i]})
                  /\ \A b \in committed.Booking :
                       b.BookingID = id => b.RequestedCapacity_SQMeters = None

\* Both branches taken: a SquareMeter booking for 25 square meters that also
\* carried items, and an ItemSlot booking with two items that also carried a
\* square-meter figure.
WitC10 ==
  \E p, q \in Calls :
    /\ Resolved(p) /\ result[p].success
    /\ req[p].op = "createBooking" /\ req[p].storageType = "SquareMeter"
    /\ req[p].requestedSqm = Some(25) /\ req[p].items # None /\ req[p].items # Some(<<>>)
    /\ Resolved(q) /\ result[q].success
    /\ req[q].op = "createBooking" /\ req[q].storageType = "ItemSlot"
    /\ req[q].requestedSqm = Some(25) /\ Len(Get(req[q].items)) = 2

\* ---------------------------------------------------------------------- C11
\* C11: in every reachable state, a durable Booking that references an
\* ItemSlot listing has no requested square-meter capacity, and a durable
\* Booking that references a SquareMeter listing has no BookingItem row.
CexC11 ==
  \A b \in committed.Booking : \A l \in committed.Listing :
    l.ListingID = b.ListingID
    => /\ l.StorageType = "ItemSlot" => b.RequestedCapacity_SQMeters = None
       /\ l.StorageType = "SquareMeter"
            => ItemsOfBooking(committed, b.BookingID) = {}

\* ---------------------------------------------------------------------- C12
\* C12: every Booking row a createBooking call inserted has BookingStatus
\* "Pending", in the connection's view and in the durable store, whatever
\* the request carries (a status field included).
ThmC12 ==
  \A p \in Calls :
    req[p].op = "createBooking"
    => \A store \in {db, committed} : \A b \in store.Booking :
         <<"Booking", b.BookingID>> \in wrote[p] => b.BookingStatus = "Pending"

\* A request that carried status "Accepted" succeeded and its row is durable.
WitC12 ==
  \E p \in Calls :
    /\ Resolved(p) /\ result[p].success
    /\ req[p].op = "createBooking" /\ req[p].status = "Accepted"
    /\ \E b \in committed.Booking :
         b.BookingID = result[p].id /\ b.BookingStatus = "Pending"

\* ---------------------------------------------------------------------- C13
\* C13: in every step, a durable booking whose status changes was Pending and
\* becomes Accepted, Rejected or Cancelled; so an Accepted, Rejected or
\* Cancelled booking keeps its status whatever status updates are requested,
\* and no request sets a status outside these values.
ThmC13 ==
  [][\A b \in committed.Booking : \A c \in committed'.Booking :
       (b.BookingID = c.BookingID /\ b.BookingStatus # c.BookingStatus)
       => /\ b.BookingStatus = "Pending"
          /\ c.BookingStatus \in {"Accepted", "Rejected", "Cancelled"}]_vars

\* A booking was accepted, and a later request to cancel it was turned down
\* and left it accepted.
WitC13 ==
  \E p, q \in Calls :
    /\ p < q
    /\ req[p].op = "updateBookingStatus" /\ req[q].op = "updateBookingStatus"
    /\ req[p].bookingId = req[q].bookingId
    /\ req[p].status = "Accepted" /\ req[q].status = "Cancelled"
    /\ Resolved(p) /\ result[p].success
    /\ Resolved(q) /\ ~result[q].success /\ fault[q] = ""
    /\ \E b \in committed.Booking :
         b.BookingID = req[p].bookingId /\ b.BookingStatus = "Accepted"

\* ---------------------------------------------------------------------- C14
\* C14: an authenticateUser call with an identifier and a password whose
\* identifier matches no account, and one whose identifier matches an account
\* but whose password is wrong, resolve with the same result when the store
\* treats their lookups alike; with the lookup answered that result is
\* success = false, "Invalid credentials.", no data.
NoAccount(p) == AuthMatches(db.User, req[p].identifier) = {}

WrongPassword(p) ==
  /\ AuthMatches(db.User, req[p].identifier) # {}
  /\ \A u \in AuthMatches(db.User, req[p].identifier) :
       ~BcryptCompare(req[p].password, u.PasswordHash)

ThmC14 ==
  \A p, q \in Calls :
    ( /\ Resolved(p) /\ req[p].op = "authenticateUser"
      /\ Resolved(q) /\ req[q].op = "authenticateUser"
      /\ req[p].identifier # "" /\ req[p].password # ""
      /\ req[q].identifier # "" /\ req[q].password # ""
      /\ NoAccount(p) /\ WrongPassword(q)
      /\ fault[p] = fault[q] )
    => /\ result[p] = result[q]
       /\ fault[p] = ""
            => result[p] = [success |-> FALSE, message |-> "Invalid credentials.",
                            id |-> 0, data |-> None]

\* A login for an unknown e-mail and a login for alice with a wrong password.
WitC14 ==
  \E p, q \in Calls :
    /\ Resolved(p) /\ req[p].op = "authenticateUser"
    /\ Resolved(q) /\ req[q].op = "authenticateUser"
    /\ req[p].identifier = "b@x.com" /\ NoAccount(p) /\ fault[p] = ""
    /\ req[q].identifier = "alice" /\ WrongPassword(q) /\ fault[q] = ""
    /\ local[q].user # None
    /\ result[p].message = "Invalid credentials."

\* ---------------------------------------------------------------------- C15
\* C15: no result of authenticateUser carries a PasswordHash field; a
\* successful result carries the fetched user row without its PasswordHash
\* field and with every other field unchanged.
ThmC15 ==
  \A p \in Calls :
    (Resolved(p) /\ req[p].op = "authenticateUser")
    => IF result[p].success
       THEN /\ IsSome(result[p].data) /\ IsSome(local[p].user)
            /\ LET data == Get(result[p].data)
                   user == Get(local[p].user)
               IN /\ DOMAIN data = DOMAIN user \ {"PasswordHash"}
                  /\ "PasswordHash" \in DOMAIN user
                  /\ \A f \in DOMAIN data : data[f] = user[f]
       ELSE result[p].data = None

\* alice logged in with her e-mail and her password.
WitC15 ==
  \E p \in Calls :
    /\ Resolved(p) /\ req[p].op = "authenticateUser" /\ result[p].success
    /\ req[p].identifier = "a@x.com"
    /\ Get(result[p].data).Username = "alice"
    /\ \E u \in committed.User : u.UserID = 1 /\ u.LastLoginDate # None

\* ---------------------------------------------------------------------- C16
\* C16: no call's promise is rejected and no call throws; a call one of whose
\* storage commands failed resolves with success = false.
CexC16 ==
  \A p \in Calls :
    /\ pc[p] \notin {"rejected", "threw"}
    /\ (Resolved(p) /\ fault[p] # "") => ~result[p].success

\* ---------------------------------------------------------------------- C17
\* C17: a listing created successfully with storageType ItemSlot or
\* SquareMeter and capacity c is returned by a later getListingById of its id
\* with that StorageType and with c in TotalCapacity_Slots (ItemSlot) or in
\* CapacitySQMeter (SquareMeter).
ThmC17 ==
  \A p, q \in Calls :
    ( /\ p < q
      /\ Resolved(p) /\ req[p].op = "createListing" /\ result[p].success
      /\ req[p].storageType \in {"ItemSlot", "SquareMeter"}
      /\ Resolved(q) /\ req[q].op = "getListingById"
      /\ req[q].listingId = result[p].id )
    => /\ IsSome(result[q].data)
       /\ LET listing == Get(result[q].data) IN
          /\ listing.ListingID = result[p].id
          /\ listing.StorageType = req[p].storageType
          /\ req[p].storageType = "ItemSlot"
               => listing.TotalCapacity_Slots = req[p].capacity
          /\ req[p].storageType = "SquareMeter"
               => listing.CapacitySQMeter = req[p].capacity

\* A SquareMeter listing of capacity 10 was created and read back.
WitC17 ==
  \E p, q \in Calls :
    /\ p < q
    /\ Resolved(p) /\ req[p].op = "createListing" /\ result[p].success
    /\ req[p].storageType = "SquareMeter" /\ req[p].capacity = Some(10)
    /\ Resolved(q) /\ req[q].op = "getListingById"
    /\ req[q].listingId = result[p].id
    /\ IsSome(result[q].data)
    /\ Get(result[q].data).CapacitySQMeter = Some(10)

\* ---------------------------------------------------------------------- C18
\* C18: in every reachable state, every durable Listing has
\* TotalCapacity_Slots set exactly when its StorageType is ItemSlot and
\* CapacitySQMeter set exactly when its StorageType is SquareMeter.
CexC18 ==
  \A l \in committed.Listing :
    /\ IsSome(l.TotalCapacity_Slots) <=> l.StorageType = "ItemSlot"
    /\ IsSome(l.CapacitySQMeter) <=> l.StorageType = "SquareMeter"

\* ---------------------------------------------------------------------- C19
\* C19: after a successful createListing with n images the durable store has
\* exactly n Attachment rows with the new ListingID, one per image, with the
\* image's path and IsPrimary = 1 exactly for an image flagged primary; every
\* Attachment row the call inserted has the new ListingID.
ThmC19 ==
  \A p \in Calls :
    (Resolved(p) /\ req[p].op = "createListing" /\ result[p].success)
    => LET images == Get(req[p].images)
           rows == AttachmentsOf(committed, result[p].id)
       IN /\ Cardinality(rows) = Len(images)
          /\ \A i \in 1..Len(images) :
               Cardinality({a \in rows :
                              /\ a.FileURL = images[i].path
                              /\ a.IsPrimary = 1 <=> images[i].isPrimary
                              /\ a.IsPrimary \in {0, 1}})
                 = Cardinality({j \in 1..Len(images) : images[j] = images[i]})
          /\ \A a \in committed.Attachment :
               <<"Attachment", a.AttachmentID>> \in wrote[p]
                 => a.ListingID = result[p].id

\* A listing with two images, the second one primary, was created.
WitC19 ==
  \E p \in Calls :
    /\ Resolved(p) /\ req[p].op = "createListing" /\ result[p].success
    /\ Len(Get(req[p].images)) = 2
    /\ ~Get(req[p].images)[1].isPrimary /\ Get(req[p].images)[2].isPrimary
    /\ Cardinality(AttachmentsOf(committed, result[p].id)) = 2

\* ---------------------------------------------------------------------- C20
\* C20: getListingById of an id no Listing has resolves with null; otherwise
\* the Images list it returns has one entry per Attachment row of the
\* listing, with the row's FileURL and IsPrimary, and no entry that is not
\* primary comes before a primary one (an empty list without attachments).
\* Stated of the call made last, so that the store is as the call read it.
CexC20 ==
  \A q \in Calls :
    ( /\ Resolved(q) /\ req[q].op = "getListingById"
      /\ \A r \in Calls : q < r => pc[r] = "idle" )
    => IF \A l \in db.Listing : l.ListingID # req[q].listingId
       THEN result[q].data = None
       ELSE /\ IsSome(result[q].data)
            /\ LET Images == Get(result[q].data).Images
                   rows == AttachmentsOf(db, req[q].listingId)
               IN /\ Len(Images) = Cardinality(rows)
                  /\ \A a \in rows :
                       \E i \in 1..Len(Images) :
                         /\ Images[i].FileURL = a.FileURL
                         /\ Images[i].IsPrimary = a.IsPrimary
                  /\ \A i, j \in 1..Len(Images) :
                       (i < j /\ Images[j].IsPrimary = 1) => Images[i].IsPrimary = 1

\* ---------------------------------------------------------------------- C21
\* C21: getAllListings returns its summaries by creation date, latest first,
\* and a searchListings(term) made right after it, on the same store, returns
\* exactly those of its entries whose City or StreetName contains term as a
\* piece of text, in the same relative order.
Contains(text, term) ==
  \E i \in 0..(Len(text) - Len(term)) : SubSeq(text, i + 1, i + Len(term)) = term

CreatedAt(listingId) ==
  (CHOOSE l \in db.Listing : l.ListingID = listingId).CreationDate

CexC21 ==
  \A p, q \in Calls :
    ( /\ q = p + 1
      /\ req[p].op = "getAllListings" /\ Resolved(p)
      /\ req[q].op = "searchListings" /\ Resolved(q)
      /\ \A r \in Calls : q < r => pc[r] = "idle" )
    => LET all == Get(result[p].data)
           found == Get(result[q].data)
           Hit(e) == \/ Contains(e.City, req[q].searchTerm)
                     \/ Contains(e.StreetName, req[q].searchTerm)
       IN /\ \A i, j \in 1..Len(all) :
                i < j => CreatedAt(all[i].ListingID) >= CreatedAt(all[j].ListingID)
          /\ found = SelectSeq(all, Hit)

\* ---------------------------------------------------------------------- C22
\* C22: a route answers a store result with success = false with a 4xx status
\* and a rejected store promise with a 5xx status; no store result with
\* success = false is answered with a 2xx status.
CexC22 ==
  \A p \in Calls :
    req[p].route # ""
    => /\ (Resolved(p) /\ ~result[p].success) => Answer(p) \in 400..499
       /\ pc[p] = "rejected" => Answer(p) \in 500..599

\* ---------------------------------------------------------------------- C23
\* C23: createUser called with a required field missing, a malformed e-mail
\* or a weak password resolves with success = false and writes no row; the
\* checks are made in the order required fields, e-mail format, password
\* strength, username taken, e-mail taken, and a call turned down by any of
\* them has neither looked up nor inserted an address.
FieldMissing(r) ==
  \/ r.username = "" \/ r.password = "" \/ r.email = ""
  \/ r.address.streetName = <<>> \/ r.address.city = <<>> \/ r.address.postalCode = ""

Has(table, column, id) == \E x \in committed[table] : x[column] = id

Matching(p) ==
  {u \in AuthMatches(db.User, req'[p].identifier) :
     BcryptCompare(req'[p].password, u.PasswordHash)}

ThmC25 ==
  [][\A p \in Calls :
       (req'[p].op = "authenticateUser" /\ pc[p] # pc'[p])
       => IF pc'[p] = "resolved" /\ result'[p].success
          THEN \E u \in Matching(p) :
                 /\ db'.User = (db.User \ {u})
                                 \cup {[u EXCEPT !.LastLoginDate = Some("NOW")]}
                 /\ committed'.User = db'.User
          ELSE /\ db'.User = db.User
               /\ committed'.User = committed.User
               /\ (pc'[p] = "resolved" /\ fault'[p] = "") => Matching(p) = {}]_vars

\* One login with the right password was answered and the user's LastLoginDate
\* is set; one with a wrong password was turned down.
WitC25 ==
  \E p, q \in Calls :
    /\ Resolved(p) /\ req[p].op = "authenticateUser" /\ result[p].success
    /\ \E u \in db.User :
         /\ u.UserID = Get(result[p].data).UserID
         /\ u.LastLoginDate = Some("NOW")
    /\ Resolved(q) /\ req[q].op = "authenticateUser" /\ req[q].password = "wrong"
    /\ ~result[q].success

\* ---------------------------------------------------------------------- C26
\* C26: authenticateUser looks the identifier up in the Email column when it
\* passes the e-mail format check and in the Username column otherwise, and in
\* that column only: the row it goes on with has the identifier in that
\* column, and it finds none exactly when no user has.
LookupColumn(identifier) == IF validateEmail(identifier) THEN "Email" ELSE "Username"

CexC27 ==
  \A p \in Calls :
    ( /\ Resolved(p)
      /\ req[p].op = "authenticateUser"
      /\ fault[p] \in {"authLookup", "updateLastLogin"} )
    => result[p].message = "Invalid credentials."

\* C27 (amended): an authenticateUser whose lookup query or last-login update
\* fails resolves with success = false, the message "Internal error during
\* authentication" and no user data.
ThmC27 ==
  \A p \in Calls :
    ( /\ Resolved(p)
      /\ req[p].op = "authenticateUser"
      /\ fault[p] \in {"authLookup", "updateLastLogin"} )
    => result[p] = [success |-> FALSE, message |-> "Internal error during authentication",
                    id |-> 0, data |-> None]

\* A login with the right password whose last-login update failed was answered
\* and the date of the last login is as it was.
WitC27 ==
  \E p \in Calls :
    /\ Resolved(p) /\ req[p].op = "authenticateUser"
    /\ fault[p] = "updateLastLogin"
    /\ ~result[p].success
    /\ \E u \in db.User : u.UserID = Get(local[p].user).UserID /\ u.LastLoginDate = None

\* ---------------------------------------------------------------------- C28
\* C28: a step of updatePassword or updateUserDetails changes the User table
\* only when the user exists, the current password given matches that user's
\* stored hash and, for updatePassword, the new password is strong; any other
\* call changes no row at any of its steps and, when it resolves, resolves
\* with success = false.
Confirmed(p) ==
  /\ req'[p].op = "updatePassword" => validatePassword(req'[p].newPassword)
  /\ \E u \in db.User :
       /\ u.UserID = req'[p].userId
       /\ BcryptCompare(req'[p].currentPassword, u.PasswordHash)

ThmC28 ==
  [][\A p \in Calls :
       ( /\ req'[p].op \in {"updatePassword", "updateUserDetails"}
         /\ pc[p] # pc'[p]
         /\ ~Confirmed(p) )
       => /\ db'.User = db.User
          /\ committed'.User = committed.User
          /\ pc'[p] = "resolved" => ~result'[p].success]_vars

\* With a wrong current password updateUserDetails was turned down and
\* updatePassword was turned down: user 1 has the e-mail and the hash it had.
WitC28 ==
  \E p, q \in Calls :
    /\ Resolved(p) /\ req[p].op = "updateUserDetails"
    /\ req[p].userId = 1 /\ req[p].currentPassword = "wrong" /\ req[p].email = "b@x.com"
    /\ result[p].message = "Incorrect password."
    /\ Resolved(q) /\ req[q].op = "updatePassword"
    /\ req[q].userId = 1 /\ req[q].currentPassword = "wrong"
    /\ req[q].newPassword = "N3wPassw0rd"
    /\ result[q].message = "Current password is incorrect"
    /\ \E u \in db.User :
         u.UserID = 1 /\ u.Email = "a@x.com" /\ u.PasswordHash = BcryptHash("Str0ngPass")

SessionRoutes == {"create", "book", "bookingUpdate", "updatePicture", "updateDetails"}

RECURSIVE SessionByHistory(_)
SessionByHistory(n) ==
  IF n = 0 THEN None
  ELSE IF req[n].route = "login" /\ Resolved(n) /\ result[n].success
  THEN Some(Get(result[n].data).UserID)
  ELSE IF req[n].route = "logout" /\ Resolved(n) /\ result[n].success
  THEN None
  ELSE SessionByHistory(n - 1)

ThmC31 ==
  /\ session = SessionByHistory(MaxCalls)
  /\ \A p \in Calls :
       /\ pc[p] # "idle" => req[p].session = SessionByHistory(p - 1)
       /\ (req[p].route = "login" /\ Resolved(p) /\ result[p].success)
            => \E u \in AuthMatches(db.User, req[p].identifier) :
                 /\ BcryptCompare(req[p].password, u.PasswordHash)
                 /\ Get(result[p].data).UserID = u.UserID
       /\ (req[p].route = "updatePicture" /\ pc[p] # "idle")
            => (Answer(p) = 401 <=> SessionByHistory(p - 1) = None)

\* The browser logged in as alice and then had its picture request let
\* through as user 1.
WitC31 ==
  \E p, q \in Calls :
    /\ p < q
    /\ req[p].route = "login" /\ Resolved(p) /\ result[p].success
    /\ req[q].route = "updatePicture" /\ req[q].session = Some(1)
    /\ req[q].userId = 1
    /\ Resolved(q) /\ result[q].success
    /\ session = Some(1)

\* ---------------------------------------------------------------------- C32
\* C32: every Listing has at most one Attachment row with IsPrimary = 1,
\* whatever files were uploaded and whatever primaryImageName was given.
CexC32 ==
  \A l \in committed.Listing :
    Cardinality(PrimaryOf(committed, l.ListingID)) <= 1

\* ---------------------------------------------------------------------- C33
\* C33: getAllListings and searchListings return every matching listing
\* exactly once, however many attachments it has and however many of them are
\* flagged primary, and a listing without a primary attachment once with
\* PrimaryImage null. Stated of the call made last, so that the store is as
\* the call read it; a listing matches a search when its address passes the
\* query's own LIKE tests.
CexC33 ==
  \A q \in Calls :
    ( /\ Resolved(q) /\ req[q].op \in {"getAllListings", "searchListings"}
      /\ \A r \in Calls : q < r => pc[r] = "idle" )
    => LET found == Get(result[q].data)
           matching ==
             IF req[q].op = "getAllListings" THEN db.Listing
             ELSE {l \in db.Listing :
                     \E a \in db.Address :
                       /\ a.AddressID = l.AddressID
                       /\ \/ Like(a.City, SearchValue(req[q].searchTerm))
                          \/ Like(a.StreetName, SearchValue(req[q].searchTerm))}
       IN /\ \A i \in 1..Len(found) :
               \E l \in matching : l.ListingID = found[i].ListingID
          /\ \A l \in matching :
               /\ Cardinality({i \in 1..Len(found) :
                                 found[i].ListingID = l.ListingID}) = 1
               /\ PrimaryOf(db, l.ListingID) = {}
                    => \A i \in 1..Len(found) :
                         found[i].ListingID = l.ListingID
                           => found[i].PrimaryImage = None

\* ---------------------------------------------------------------------- C34
\* C34: when every storage command invokes its callback in the end, every
\* createUser, createListing and createBooking call made resolves its promise
\* in the end, whatever its input, an ItemSlot booking without an items field
\* and a listing without an images field included.
CexC34 ==
  \A p \in Calls : (pc[p] # "idle") ~> Resolved(p)

\* ---------------------------------------------------------------------- C35
\* C35: createUser, createListing and createBooking deliver success = true
\* only from a commit callback that reported no error, and then every row the
\* call wrote is durable; a commit that reports an error is followed by a
\* rollback, after which the call delivers success = false.
CexC35 ==
  [][\A p \in Calls :
       /\ (~Resolved(p) /\ pc'[p] = "resolved" /\ result'[p].success
             /\ req'[p].op \in {"createUser", "createListing", "createBooking"})
            => /\ pc[p] = "commit" /\ faults' = faults
               /\ Kept(p, committed)' = wrote'[p]
       /\ (pc[p] = "commit" /\ pc'[p] # "commit" /\ faults' # faults)
            => pc'[p] = "rollback"
       /\ (pc[p] = "rollback" /\ pc'[p] # "rollback")
            => pc'[p] = "resolved" /\ ~result'[p].success /\ ended'[p] = ended[p] + 1
    ]_vars

\* ---------------------------------------------------------------------- C36
\* C36: the password that logs user 1 in is the new password of the latest
\* updatePassword call for user 1 that returned success = true, and the
\* password of the stored account when there was none: after a successful
\* change authenticateUser succeeds with the new password and fails with the
\* old one, and a change that returned success = false alters no outcome.
\* Stated of logins no storage command of which failed.
RECURSIVE PasswordByHistory(_)
PasswordByHistory(n) ==
  IF n = 0 THEN "Str0ngPass"
  ELSE IF /\ req[n].op = "updatePassword" /\ req[n].userId = 1
          /\ Resolved(n) /\ result[n].success
       THEN req[n].newPassword
       ELSE PasswordByHistory(n - 1)

ThmC36 ==
  \A q \in Calls :
    ( /\ req[q].op = "authenticateUser" /\ Resolved(q) /\ fault[q] = ""
      /\ req[q].identifier \in {"alice", "a@x.com"} /\ req[q].password # "" )
    => ( result[q].success
           <=> /\ \E u \in db.User : u.UserID = 1
               /\ req[q].password = PasswordByHistory(q - 1) )

\* The password was changed, and the login with the new password succeeded.
WitC36 ==
  \E p, q \in Calls :
    /\ p < q
    /\ req[p].op = "updatePassword" /\ req[p].userId = 1
    /\ req[p].currentPassword = "Str0ngPass" /\ req[p].newPassword = "N3wPassw0rd"
    /\ Resolved(p) /\ result[p].success
    /\ req[q].op = "authenticateUser" /\ req[q].password = "N3wPassw0rd"
    /\ Resolved(q) /\ result[q].success

\* ---------------------------------------------------------------------- C37
\* C37: for every durable listing the capacity its durable bookings ask for
\* is within the listing's capacity: the quantities of their items within
\* TotalCapacity_Slots of an ItemSlot listing, their requested square meters
\* within CapacitySQMeter of a SquareMeter listing.
RECURSIVE Quantities(_)
Quantities(items) ==
  IF items = {} THEN 0
  ELSE LET i == CHOOSE x \in items : TRUE
       IN i.Quantity + Quantities(items \ {i})

RECURSIVE SquareMeters(_)
SquareMeters(bookings) ==
  IF bookings = {} THEN 0
  ELSE LET b == CHOOSE x \in bookings : TRUE
       IN (IF IsSome(b.RequestedCapacity_SQMeters)
           THEN Get(b.RequestedCapacity_SQMeters) ELSE 0)
          + SquareMeters(bookings \ {b})

BookingsOf(store, listingId) == {b \in store.Booking : b.ListingID = listingId}

CexC37 ==
  \A l \in committed.Listing :
    LET bookings == BookingsOf(committed, l.ListingID)
        items == {i \in committed.BookingItem :
                    \E b \in bookings : b.BookingID = i.BookingID}
    IN /\ (l.StorageType = "ItemSlot" /\ IsSome(l.TotalCapacity_Slots))
            => Quantities(items) <= Get(l.TotalCapacity_Slots)
       /\ (l.StorageType = "SquareMeter" /\ IsSome(l.CapacitySQMeter))
            => SquareMeters(bookings) <= Get(l.CapacitySQMeter)

\* ---------------------------------------------------------------------- C38
\* C38: every User row that enters the store has Role = Seeker and
\* IsVerified = 0, whatever role and verification the registration carried,
\* and the IsVerified of a stored user changes only by the statement of an
\* updateVerificationStatus call for that user, to the value the call gave.
ThmC38 ==
  [][\A v \in db'.User :
       /\ (\A u \in db.User : u.UserID # v.UserID)
            => /\ v.Role = "Seeker" /\ v.IsVerified = 0
               /\ \E p \in Calls : pc[p] = "insertUser" /\ req[p].op = "createUser"
       /\ \A u \in db.User :
            (u.UserID = v.UserID /\ u.IsVerified # v.IsVerified)
            => \E p \in Calls :
                 /\ pc[p] = "updateVerification" /\ pc'[p] = "resolved"
                 /\ req[p].op = "updateVerificationStatus"
                 /\ req[p].userId = v.UserID /\ v.IsVerified = req[p].isVerified
    ]_vars

\* A registration that asked for the role Provider and to be verified made a
\* Seeker, who was verified by the updateVerificationStatus call after it.
WitC38 ==
  \E p, q \in Calls :
    /\ p < q
    /\ req[p].op = "createUser" /\ req[p].role = "Provider" /\ req[p].isVerified = 1
    /\ Resolved(p) /\ result[p].success
    /\ req[q].op = "updateVerificationStatus" /\ req[q].userId = result[p].id
    /\ req[q].isVerified = 1 /\ Resolved(q)
    /\ \E u \in committed.User :
         u.UserID = result[p].id /\ u.Role = "Seeker" /\ u.IsVerified = 1

====
